---- MODULE Spec2Model ----
(***************************************************************************)
(* Model of the catalogue page of cacadordeofertas: the FiltersManager     *)
(* (js/filters.js), the windowing of ProductRenderer                       *)
(* (js/product-renderer.js), the query-string helpers of js/utils.js, the  *)
(* CSVParser (js/csv-parser.js) and the loads of PromotionsApp in its CSV  *)
(* build and its SQLite build, normalizeImageSrc and the debounced         *)
(* listener of the search box (Utils.debounce).                            *)
(*                                                                         *)
(* Strings that the code inspects character by character (search term,    *)
(* title, description, category, platform, sort key, query-string values)  *)
(* are sequences of one-character strings; '' is the empty sequence.       *)
(* Names the code never inspects (parameter names, column names of the    *)
(* database) are TLA+ strings.                                             *)
(* A nullable Date is <<>> (null) or <<t>> with t the time value.          *)
(* Prices are in centavos and ratings in tenths, so that the comparators   *)
(* of sortProducts keep their sign on integers.  Every number a loader     *)
(* reads or writes is the count of its hundredths (100 is 1, 9990 is       *)
(* 99.90, a discount of 50 percent is 5000); NaN is a number of its own,   *)
(* and an Invalid Date is the date whose time value is NaN.                *)
(***************************************************************************)
EXTENDS Integers, Sequences, FiniteSets, TLC

VARIABLES
    allProducts,       \* FiltersManager.allProducts
    filteredProducts,  \* FiltersManager.filteredProducts
    currentFilters,    \* FiltersManager.currentFilters
    currentPage,       \* FiltersManager.currentPage
    filters,           \* FiltersManager.filters: <<>> while undefined, <<m>> once an object
    url,               \* window.location.search as the list of <<name, value>> pairs
    gridEmpty,         \* #produtos-grid holds the empty-state block
    grid,              \* product cards of #produtos-grid, in document order
    nicheGrids,        \* product cards of the three niche grids
    nichesHidden,      \* the niche sections have display 'none'
    loadMoreVisible,   \* #load-more-btn has display 'block'
    paginated,         \* paginatedProducts of the last renderProductsWithPagination call
    stalePasses,       \* filter passes drawn in append mode since the grid was last replaced
    lastOp,            \* the handler that ran last
    threw,             \* the handler that ran last raised an exception
    backend,           \* the build of the page: "csv" or "sqlite"
    loadPc,            \* where PromotionsApp stands: "fetching", "loaded", "idle"
    caller,            \* who awaits loadProducts: "init" or "refresh"
    appProducts,       \* PromotionsApp.products
    lastUpdateTime,    \* PromotionsApp.lastUpdateTime: "null" or "set"
    overlay,           \* #loading-overlay is displayed
    notifications,     \* types of the notifications shown since the load began
    escaped,           \* the last loadProducts ended in a rejection
    fetched,           \* what the fetch of the last load came back with
    exported,          \* what exportFilteredProducts returned, <<>> after any other handler
    imgStr,            \* the image string handed to ProductRenderer.normalizeImageSrc
    imgSrc,            \* what normalizeImageSrc returned for it, <<>> before the call
    searchBox,         \* the value of #search-input
    timers,            \* the pending timeouts of the debounced search listener
    now,               \* the clock of the page, in milliseconds
    lastEvent,         \* the last input event of #search-input, <<>> before the first
    passes             \* runs of the debounced listener since that event

filterVars == <<allProducts, filteredProducts, currentFilters, currentPage, filters, url,
                gridEmpty, grid, nicheGrids, nichesHidden, loadMoreVisible, paginated,
                stalePasses, lastOp, threw>>

appVars == <<backend, loadPc, caller, appProducts, lastUpdateTime, overlay, notifications,
             escaped, fetched, exported>>

imageVars == <<imgStr, imgSrc>>

searchVars == <<searchBox, timers, now, lastEvent, passes>>

pageVars == <<imageVars, searchVars>>

vars == <<filterVars, appVars, pageVars>>

(***************************************************************************)
(* Bounds                                                                  *)
(***************************************************************************)
MaxSmall == 3      \* longest collection drawn freely from the pool
PoolSize == 4      \* products of the pool the free collections draw from
MaxPage == 3       \* loadMoreProducts is not taken beyond this page
MaxStale == 1      \* filter passes followed at a page beyond the first, per grid
MaxLines == 2      \* lines of a sheet after its header line
MaxRows == 2       \* rows of a table of a database
MaxPad == 1        \* blanks before and after an image string
MaxTime == 900     \* the clock of the page stops here, in milliseconds

(***************************************************************************)
(* Program constants                                                       *)
(***************************************************************************)
itemsPerPage == 12
nicheLimit == 8
base64MinLength == 100
debounceWait == 300

(***************************************************************************)
(* String literals                                                         *)
(***************************************************************************)
empty == <<>>
discount == <<"d","i","s","c","o","u","n","t">>
priceLow == <<"p","r","i","c","e","-","l","o","w">>
priceHigh == <<"p","r","i","c","e","-","h","i","g","h">>
newest == <<"n","e","w","e","s","t">>
rating == <<"r","a","t","i","n","g">>
sales == <<"s","a","l","e","s">>

sFone == <<"f","o","n","e">>
sSHO == <<"S","H","O">>
sAUD == <<"A","U","D">>
sShopee == <<"S","h","o","p","e","e">>
sShopeeLower == <<"s","h","o","p","e","e">>
sAmazon == <<"A","m","a","z","o","n">>
sAudio == <<"A","u","d","i","o">>
sOutros == <<"O","u","t","r","o","s">>

Titulos == << <<"T","V">>, <<"F","o","n","e">>, <<"M","o","u","s","e">> >>
Descricoes == << <<>>, <<"p","/"," ","F","O","N","E">>, <<"D","i","s","c","o","u","n","t">> >>
Categorias == << sAudio, sOutros >>
Plataformas == << sShopee, sAmazon, sShopeeLower >>
sNovidades == <<"n","o","v","i","d","a","d","e","s">>
sMaisVendidos == <<"m","a","i","s"," ","v","e","n","d","i","d","o","s">>
sOfertasRelampago ==
    <<"o","f","e","r","t","a","s"," ","r","e","l","a","m","p","a","g","o">>

Nichos == << <<sNovidades>>, <<sMaisVendidos, sOfertasRelampago>>, <<>>,
             <<sMaisVendidos>>, <<sOfertasRelampago, sNovidades>> >>

NicheTags == {sOfertasRelampago, sNovidades, sMaisVendidos}
Dims == {"search", "platform", "category", "sort"}

NullDate == <<>>

(***************************************************************************)
(* Products                                                                *)
(***************************************************************************)
Pick(table, k) == table[(k % Len(table)) + 1]

\* The canonical product number k: the fields the catalogue code reads.
Prod(k) ==
    [ id |-> k,
      titulo |-> Pick(Titulos, k),
      descricao |-> Pick(Descricoes, k \div 2),
      categoria_principal |-> Pick(Categorias, k),
      plataforma |-> Pick(Plataformas, k),
      desconto_percentual |-> (((k + 1) \div 2) % 3) * 10,
      preco_promocional |-> (((k \div 2) % 3) + 1) * 1000 - 10,
      data_publicacao |-> IF k % 3 = 0 THEN NullDate ELSE << (k % 2) + 1 >>,
      avaliacao |-> 30 + ((k * 2) % 3) * 9,
      vendas |-> (k % 2) * 100 + (k \div 5) * 10,
      nichos |-> Pick(Nichos, k) ]

\* A loaded collection of n products with consecutive ids from base + 1.
Collection(n, base) == [i \in 1..n |-> Prod(base + i)]

RECURSIVE SeqsUpTo(_, _)
SeqsUpTo(S, n) ==
    IF n = 0 THEN { <<>> }
    ELSE LET shorter == SeqsUpTo(S, n - 1)
         IN shorter \cup { Append(s, x) : s \in { t \in shorter : Len(t) = n - 1 }, x \in S }

SmallCollections == SeqsUpTo({ Prod(k) : k \in 1..PoolSize }, MaxSmall)
\* The collections a load or a refresh installs in the life-cycle specification
Collections == { <<>>, Collection(25, 0), Collection(13, 30) }

\* Every filter state the filter pass is checked on
SearchValues == { empty, sFone, sSHO, sAUD, discount }
PlatformValues == { empty, sShopee, sShopeeLower, discount }
CategoryValues == { empty, sAudio, discount }
SortValues == { discount, priceLow, priceHigh, newest, rating, sales, empty }

FilterStates ==
    [search : SearchValues, platform : PlatformValues, category : CategoryValues,
     sort : SortValues]

\* The values the controls send to updateFilter in the life-cycle specification
Values(filterType) ==
    CASE filterType = "search" -> { empty, sFone }
      [] filterType = "platform" -> { empty, sShopee }
      [] filterType = "category" -> { empty }
      [] filterType = "sort" -> { discount, priceLow }

\* The values the controls send in the query-string specification
UrlValues(filterType) ==
    CASE filterType = "search" -> { empty, sFone, discount }
      [] filterType = "platform" -> { empty, sShopee }
      [] filterType = "category" -> { empty, sAudio }
      [] filterType = "sort" -> { discount, priceLow, empty }

\* The query strings the page is opened with
InitialQueries ==
    { <<>>,
      << <<"sort", priceLow>>, <<"category", empty>>, <<"sort", sales>> >> }

(***************************************************************************)
(* String functions                                                        *)
(***************************************************************************)
UpperCase == <<"A","B","C","D","E","F","G","H","I","J","K","L","M",
               "N","O","P","Q","R","S","T","U","V","W","X","Y","Z">>
LowerCase == <<"a","b","c","d","e","f","g","h","i","j","k","l","m",
               "n","o","p","q","r","s","t","u","v","w","x","y","z">>

toLowerChar(c) ==
    IF \E i \in 1..Len(UpperCase) : UpperCase[i] = c
    THEN LowerCase[CHOOSE i \in 1..Len(UpperCase) : UpperCase[i] = c]
    ELSE c

\* String.prototype.toLowerCase
toLowerCase(s) == [i \in 1..Len(s) |-> toLowerChar(s[i])]

\* String.prototype.includes
includes(s, t) == \E i \in 0..(Len(s) - Len(t)) : SubSeq(s, i + 1, i + Len(t)) = t

\* Array.prototype.includes on an array of tags
arrayIncludes(arr, x) == \E i \in 1..Len(arr) : arr[i] = x

\* Array.prototype.slice(start, end) with 0 <= start <= end
slice(arr, start, end) ==
    IF start >= Len(arr) THEN <<>>
    ELSE SubSeq(arr, start + 1, IF end < Len(arr) THEN end ELSE Len(arr))

Min(a, b) == IF a < b THEN a ELSE b

(***************************************************************************)
(* FiltersManager.sortProducts                                             *)
(***************************************************************************)
\* new Date(d) for a product date, new Date(0) for null, as a time value
dateValue(d) == IF d = NullDate THEN 0 ELSE d[1]

\* The comparators of the switch; a negative result puts a first
byDiscount(a, b) == b.desconto_percentual - a.desconto_percentual
byPriceLow(a, b) == a.preco_promocional - b.preco_promocional

\* byPriceHigh comparing in ascending order
byPriceHighAscending(a, b) == a.preco_promocional - b.preco_promocional

byPriceHigh(a, b) == b.preco_promocional - a.preco_promocional

\* byNewest comparing in ascending order
byNewestAscending(a, b) == dateValue(a.data_publicacao) - dateValue(b.data_publicacao)

byNewest(a, b) == dateValue(b.data_publicacao) - dateValue(a.data_publicacao)
byRating(a, b) == b.avaliacao - a.avaliacao
bySales(a, b) == b.vendas - a.vendas

SortKeys == { discount, priceLow, priceHigh, newest, rating, sales }

\* the comparator the switch hands to sort for a key of SortKeys
compare(sortBy, a, b) ==
    CASE sortBy = discount -> byDiscount(a, b)
      [] sortBy = priceLow -> byPriceLow(a, b)
      [] sortBy = priceHigh -> byPriceHigh(a, b)
      [] sortBy = newest -> byNewest(a, b)
      [] sortBy = rating -> byRating(a, b)
      [] sortBy = sales -> bySales(a, b)

\* Array.prototype.sort with a consistent comparator is a stable sort: x goes
\* before the first element the comparator puts after it
RECURSIVE firstAfter(_, _, _, _)
firstAfter(sorted, x, sortBy, i) ==
    IF i > Len(sorted) \/ compare(sortBy, sorted[i], x) > 0 THEN i
    ELSE firstAfter(sorted, x, sortBy, i + 1)

insertSorted(sorted, x, sortBy) ==
    LET p == firstAfter(sorted, x, sortBy, 1)
    IN SubSeq(sorted, 1, p - 1) \o <<x>> \o SubSeq(sorted, p, Len(sorted))

RECURSIVE arraySort(_, _, _, _)
arraySort(products, sortBy, i, acc) ==
    IF i > Len(products) THEN acc
    ELSE arraySort(products, sortBy, i + 1, insertSorted(acc, products[i], sortBy))

\* the default case returns the copy unsorted
sortProducts(products, sortBy) ==
    IF sortBy \in SortKeys THEN arraySort(products, sortBy, 1, <<>>)
    ELSE products

(***************************************************************************)
(* FiltersManager.applyFilters: the three predicates, then the sort        *)
(***************************************************************************)
\* matchesSearch with the description left out of the match
matchesSearchNoDescription(product, search) ==
    LET searchTerm == toLowerCase(search)
    IN \/ includes(toLowerCase(product.titulo), searchTerm)
       \/ includes(toLowerCase(product.categoria_principal), searchTerm)
       \/ includes(toLowerCase(product.plataforma), searchTerm)

matchesSearch(product, search) ==
    LET searchTerm == toLowerCase(search)
    IN \/ includes(toLowerCase(product.titulo), searchTerm)
       \/ includes(toLowerCase(product.descricao), searchTerm)
       \/ includes(toLowerCase(product.categoria_principal), searchTerm)
       \/ includes(toLowerCase(product.plataforma), searchTerm)

\* matchesPlatform comparing without regard to case
matchesPlatformIgnoreCase(product, platform) ==
    toLowerCase(product.plataforma) = toLowerCase(platform)

matchesPlatform(product, platform) == product.plataforma = platform

matchesCategory(product, category) == product.categoria_principal = category

applyFiltersResult(products, cf) ==
    LET bySearch == IF cf.search # empty
                    THEN SelectSeq(products, LAMBDA p : matchesSearch(p, cf.search))
                    ELSE products
        byPlatform == IF cf.platform # empty
                      THEN SelectSeq(bySearch, LAMBDA p : matchesPlatform(p, cf.platform))
                      ELSE bySearch
        byCategory == IF cf.category # empty
                      THEN SelectSeq(byPlatform, LAMBDA p : matchesCategory(p, cf.category))
                      ELSE byPlatform
    IN sortProducts(byCategory, cf.sort)

(***************************************************************************)
(* Niche sections                                                          *)
(***************************************************************************)
getProductsByNiche(products, niche) ==
    SelectSeq(products, LAMBDA p : arrayIncludes(p.nichos, niche))

\* renderNicheSection cutting one card too late
renderNicheSectionOneMore(products, niche, limit) ==
    slice(getProductsByNiche(products, niche), 0, limit + 1)

renderNicheSection(products, niche, limit) ==
    slice(getProductsByNiche(products, niche), 0, limit)

\* FiltersManager.updateSectionVisibility: hasActiveFilters
hasActiveFilters(cf) ==
    \E d \in Dims : cf[d] # empty /\ cf[d] # discount

(***************************************************************************)
(* ProductRenderer.renderProductsWithPagination on #produtos-grid          *)
(***************************************************************************)
\* renderProductsWithPagination taking the page number as 0-based
renderProductsFromNextPage(products, page, perPage, oldEmpty, oldGrid) ==
    LET startIndex == page * perPage
        endIndex == startIndex + perPage
        paginatedProducts == slice(products, startIndex, endIndex)
    IN IF startIndex >= Len(products)
       THEN [ selected |-> <<>>,
              empty |-> IF page = 1 THEN TRUE ELSE oldEmpty,
              cards |-> IF page = 1 THEN <<>> ELSE oldGrid,
              hasMore |-> FALSE ]
       ELSE [ selected |-> paginatedProducts,
              empty |-> IF page = 1 THEN FALSE ELSE oldEmpty,
              cards |-> IF page = 1 THEN paginatedProducts ELSE oldGrid \o paginatedProducts,
              hasMore |-> endIndex < Len(products) ]

\* renderProductsWithPagination replacing the content on every page
renderProductsAlwaysReplacing(products, page, perPage, oldEmpty, oldGrid) ==
    LET startIndex == (page - 1) * perPage
        endIndex == startIndex + perPage
        paginatedProducts == slice(products, startIndex, endIndex)
    IN IF startIndex >= Len(products)
       THEN [ selected |-> <<>>,
              empty |-> IF page = 1 THEN TRUE ELSE oldEmpty,
              cards |-> IF page = 1 THEN <<>> ELSE oldGrid,
              hasMore |-> FALSE ]
       ELSE [ selected |-> paginatedProducts,
              empty |-> FALSE,
              cards |-> paginatedProducts,
              hasMore |-> endIndex < Len(products) ]

renderProductsWithPagination(products, page, perPage, oldEmpty, oldGrid) ==
    LET startIndex == (page - 1) * perPage
        endIndex == startIndex + perPage
        paginatedProducts == slice(products, startIndex, endIndex)
    IN IF startIndex >= Len(products)
       THEN [ selected |-> <<>>,
              empty |-> IF page = 1 THEN TRUE ELSE oldEmpty,
              cards |-> IF page = 1 THEN <<>> ELSE oldGrid,
              hasMore |-> FALSE ]
       ELSE [ selected |-> paginatedProducts,
              empty |-> IF page = 1 THEN FALSE ELSE oldEmpty,
              cards |-> IF page = 1 THEN paginatedProducts ELSE oldGrid \o paginatedProducts,
              hasMore |-> endIndex < Len(products) ]

(***************************************************************************)
(* Utils.getQueryParam / setQueryParam / removeQueryParam                  *)
(***************************************************************************)
\* URLSearchParams.get: <<>> for null, <<v>> for the first value of the name
getQueryParam(u, param) ==
    LET hits == { i \in 1..Len(u) : u[i][1] = param }
    IN IF hits = {} THEN <<>>
       ELSE << u[CHOOSE i \in hits : \A j \in hits : i <= j][2] >>

\* removeQueryParam leaving the parameter in place with an empty value
removeQueryParamSetsEmpty(u, param) ==
    [i \in 1..Len(u) |-> IF u[i][1] = param THEN <<param, empty>> ELSE u[i]]

\* URLSearchParams.delete: every pair of the name goes
removeQueryParam(u, param) == SelectSeq(u, LAMBDA pair : pair[1] # param)

\* URLSearchParams.set: the first pair of the name takes the value and the
\* others go; a new name is appended
setQueryParam(u, param, value) ==
    LET hits == { i \in 1..Len(u) : u[i][1] = param }
    IN IF hits = {} THEN Append(u, <<param, value>>)
       ELSE LET first == CHOOSE i \in hits : \A j \in hits : i <= j
            IN SubSeq(u, 1, first - 1) \o << <<param, value>> >>
               \o removeQueryParam(SubSeq(u, first + 1, Len(u)), param)

\* getQueryParam(param) || fallback
paramOr(u, param, fallback) ==
    LET r == getQueryParam(u, param)
    IN IF r = <<>> \/ r[1] = empty THEN fallback ELSE r[1]

(***************************************************************************)
(* Numbers and strings of the loaders                                      *)
(*                                                                         *)
(* A number a loader produces is a fixed-point count of hundredths (100    *)
(* is 1, 9990 is 99.90); parseFloat and Number keep two decimals of the    *)
(* texts they read, which carry no exponent.  NaN is an integer outside    *)
(* the range of every number the loaders compute.                          *)
(***************************************************************************)
NaN == -1000000000

DigitChars == <<"0","1","2","3","4","5","6","7","8","9">>
WhiteSpace == {" ", "\t", "\r", "\n"}

isDigit(c) == \E i \in 1..10 : DigitChars[i] = c
digitValue(c) == (CHOOSE i \in 1..10 : DigitChars[i] = c) - 1

RECURSIVE trimStart(_)
trimStart(s) ==
    IF s # <<>> /\ Head(s) \in WhiteSpace THEN trimStart(Tail(s)) ELSE s

RECURSIVE trimEnd(_)
trimEnd(s) ==
    IF s # <<>> /\ s[Len(s)] \in WhiteSpace THEN trimEnd(SubSeq(s, 1, Len(s) - 1)) ELSE s

\* String.prototype.trim
trim(s) == trimEnd(trimStart(s))

\* String.prototype.split on a one-character separator: the pieces between
\* consecutive occurrences of the separator
split(s, sep) ==
    LET seps == { i \in 1..Len(s) : s[i] = sep }
        boundary(k) == IF k = 0 THEN 0
                       ELSE IF k > Cardinality(seps) THEN Len(s) + 1
                       ELSE CHOOSE i \in seps : Cardinality({ j \in seps : j < i }) = k - 1
    IN [ k \in 1..(Cardinality(seps) + 1) |->
           SubSeq(s, boundary(k - 1) + 1, boundary(k) - 1) ]

\* the length of the run of decimal digits of s that starts at position i
RECURSIVE digitsRun(_, _)
digitsRun(s, i) ==
    IF i <= Len(s) /\ isDigit(s[i]) THEN 1 + digitsRun(s, i + 1) ELSE 0

\* the value of the decimal digits s[i..j]
RECURSIVE digitsValue(_, _, _)
digitsValue(s, i, j) ==
    IF j < i THEN 0 ELSE 10 * digitsValue(s, i, j - 1) + digitValue(s[j])

\* sign, integer digits and fraction digits at the head of t, as hundredths;
\* used is the number of characters the literal takes, 0 when there is none
decimalPrefix(t) ==
    LET signLen == IF t # <<>> /\ t[1] \in {"+", "-"} THEN 1 ELSE 0
        n1 == digitsRun(t, signLen + 1)
        dot == signLen + n1 + 1
        n2 == IF dot <= Len(t) /\ t[dot] = "." THEN digitsRun(t, dot + 1) ELSE 0
        whole == digitsValue(t, signLen + 1, signLen + n1)
        tenths == IF n2 >= 1 THEN digitValue(t[dot + 1]) ELSE 0
        hundredths == IF n2 >= 2 THEN digitValue(t[dot + 2]) ELSE 0
        magnitude == 100 * whole + 10 * tenths + hundredths
    IN IF n1 + n2 = 0 THEN [ used |-> 0, value |-> NaN ]
       ELSE [ used |-> signLen + n1 + (IF dot <= Len(t) /\ t[dot] = "." THEN 1 + n2 ELSE 0),
              value |-> IF signLen = 1 /\ t[1] = "-" THEN 0 - magnitude ELSE magnitude ]

\* the global parseFloat: the longest decimal literal after leading white space
globalParseFloat(s) == decimalPrefix(trimStart(s)).value

\* the global parseInt, radix 10: sign and integer digits after leading white space
globalParseInt(s) ==
    LET t == trimStart(s)
        signLen == IF t # <<>> /\ t[1] \in {"+", "-"} THEN 1 ELSE 0
        n1 == digitsRun(t, signLen + 1)
        magnitude == 100 * digitsValue(t, signLen + 1, signLen + n1)
    IN IF n1 = 0 THEN NaN
       ELSE IF signLen = 1 /\ t[1] = "-" THEN 0 - magnitude ELSE magnitude

\* Number(string): the whole trimmed text is a decimal literal, '' is 0
stringToNumber(s) ==
    LET t == trim(s)
        r == decimalPrefix(t)
    IN IF t = <<>> THEN 0
       ELSE IF r.used = Len(t) THEN r.value
       ELSE NaN

\* Math.round of the quotient num / den (den > 0): the nearest integer, a
\* half going up
roundQuotient(num, den) == 100 * ((2 * num + den) \div (2 * den))

\* String(number) for a number with at most two decimals
RECURSIVE natToString(_)
natToString(n) ==
    IF n < 10 THEN << DigitChars[n + 1] >>
    ELSE Append(natToString(n \div 10), DigitChars[(n % 10) + 1])

numberToString(x) ==
    IF x = NaN THEN <<"N","a","N">>
    ELSE LET m == IF x < 0 THEN 0 - x ELSE x
             whole == natToString(m \div 100)
             frac == m % 100
             fraction == IF frac = 0 THEN <<>>
                         ELSE IF frac % 10 = 0 THEN <<".", DigitChars[(frac \div 10) + 1]>>
                         ELSE <<".", DigitChars[(frac \div 10) + 1], DigitChars[(frac % 10) + 1]>>
         IN (IF x < 0 THEN <<"-">> ELSE <<>>) \o whole \o fraction

(***************************************************************************)
(* CSVParser                                                               *)
(***************************************************************************)
\* The column names of the sheet, as the header line spells them
cId == <<"i","d">>
cTitulo == <<"t","i","t","u","l","o">>
cDescricao == <<"d","e","s","c","r","i","c","a","o">>
cPrecoOriginal == <<"p","r","e","c","o","_","o","r","i","g","i","n","a","l">>
cPrecoPromocional ==
    <<"p","r","e","c","o","_","p","r","o","m","o","c","i","o","n","a","l">>
cDescontoPercentual ==
    <<"d","e","s","c","o","n","t","o","_","p","e","r","c","e","n","t","u","a",
      "l">>
cLinkAfiliado == <<"l","i","n","k","_","a","f","i","l","i","a","d","o">>
cImagensBase64 == <<"i","m","a","g","e","n","s","_","b","a","s","e","6","4">>
cCategoriaPrincipal ==
    <<"c","a","t","e","g","o","r","i","a","_","p","r","i","n","c","i","p","a",
      "l">>
cNichos == <<"n","i","c","h","o","s">>
cPlataforma == <<"p","l","a","t","a","f","o","r","m","a">>
cAvaliacao == <<"a","v","a","l","i","a","c","a","o">>
cVendas == <<"v","e","n","d","a","s">>
cDataInicioPromocao ==
    <<"d","a","t","a","_","i","n","i","c","i","o","_","p","r","o","m","o","c",
      "a","o">>
cDataFimPromocao ==
    <<"d","a","t","a","_","f","i","m","_","p","r","o","m","o","c","a","o">>
cDataPublicacao ==
    <<"d","a","t","a","_","p","u","b","l","i","c","a","c","a","o">>
cStatus == <<"s","t","a","t","u","s">>

sDesconhecida == <<"D","e","s","c","o","n","h","e","c","i","d","a">>
sPublished == <<"p","u","b","l","i","s","h","e","d">>

\* CSVParser.parseCSVLine, one field at a time.  The scan of a field starts
\* at position i outside quotes; fieldEnd is the position of the separator
\* that ends it (one past the line for the last field) and fieldText is
\* current at that point.  Both follow the branches of the loop: a quote
\* inside quotes followed by a quote adds a quote and skips both, any other
\* quote toggles inQuotes, a comma outside quotes ends the field, and every
\* other character is added to current.  nextSpecial is the position of the
\* first quote or comma from position i on (one past the line when there is
\* none): the characters before it all take the last branch.
nextSpecial(line, i) ==
    LET S == { j \in i..Len(line) : line[j] = "\"" \/ line[j] = "," }
    IN IF S = {} THEN Len(line) + 1
       ELSE CHOOSE j \in S : \A k \in S : j <= k

RECURSIVE fieldEnd(_, _, _)
fieldEnd(line, i, inQuotes) ==
    LET j == nextSpecial(line, i)
    IN IF j > Len(line) THEN j
       ELSE IF line[j] = "\""
            THEN IF inQuotes /\ j + 1 <= Len(line) /\ line[j + 1] = "\""
                 THEN fieldEnd(line, j + 2, inQuotes)
                 ELSE fieldEnd(line, j + 1, ~inQuotes)
       ELSE IF ~inQuotes THEN j
       ELSE fieldEnd(line, j + 1, inQuotes)

RECURSIVE fieldText(_, _, _)
fieldText(line, i, inQuotes) ==
    LET j == nextSpecial(line, i)
    IN SubSeq(line, i, j - 1)
       \o (IF j > Len(line) THEN <<>>
           ELSE IF line[j] = "\""
                THEN IF inQuotes /\ j + 1 <= Len(line) /\ line[j + 1] = "\""
                     THEN << "\"" >> \o fieldText(line, j + 2, inQuotes)
                     ELSE fieldText(line, j + 1, ~inQuotes)
           ELSE IF ~inQuotes THEN <<>>
           ELSE << "," >> \o fieldText(line, j + 1, inQuotes))

RECURSIVE parseCSVLineFrom(_, _)
parseCSVLineFrom(line, i) ==
    << trim(fieldText(line, i, FALSE)) >>
    \o (IF fieldEnd(line, i, FALSE) > Len(line) THEN <<>>
        ELSE parseCSVLineFrom(line, fieldEnd(line, i, FALSE) + 1))

parseCSVLine(line) == parseCSVLineFrom(line, 1)

\* rawProduct[name]: a column the header lacks reads undefined, which every
\* use below treats as it treats ''
rawField(rawProduct, name) ==
    IF name \in DOMAIN rawProduct THEN rawProduct[name] ELSE empty

\* CSVParser.parseFloat and CSVParser.parseInt
parseFloat(value) ==
    LET parsed == globalParseFloat(value)
    IN IF parsed = NaN THEN 0 ELSE parsed

parseInt(value) ==
    LET parsed == globalParseInt(value)
    IN IF parsed = NaN THEN 0 ELSE parsed

\* new Date(dateString).getTime() for the date texts of the inputs, in hours
\* counted from 2024-12-31T23:00Z; any other text is not a date
d2025 == <<"2","0","2","5">>
d20250121 == <<"2","0","2","5","-","0","1","-","2","1">>

dateParse(dateString) ==
    CASE dateString = d2025 -> 1
      [] dateString = d20250121 -> 481
      [] OTHER -> NaN

\* CSVParser.parseDate
parseDate(dateString) ==
    IF dateString = empty THEN NullDate
    ELSE IF dateParse(dateString) = NaN THEN NullDate
    ELSE << dateParse(dateString) >>

\* str.split(sep).map(item => item.trim()).filter(item => item.length > 0)
splitTrimmed(str, sep) ==
    SelectSeq([i \in 1..Len(split(str, sep)) |-> trim(split(str, sep)[i])],
              LAMBDA item : Len(item) > 0)

\* CSVParser.parseStringArray and CSVParser.parseImageArray
parseStringArray(str) == IF str = empty THEN <<>> ELSE splitTrimmed(str, ",")

parseImageArray(str) == IF str = empty THEN <<>> ELSE splitTrimmed(str, "|")

\* value || fallback on strings
orElse(value, fallback) == IF value = empty THEN fallback ELSE value

\* the required fields of processProductData: !rawProduct.id ||
\* !rawProduct.titulo || !rawProduct.link_afiliado
missingRequired(rawProduct) ==
    \/ rawField(rawProduct, cId) = empty
    \/ rawField(rawProduct, cTitulo) = empty
    \/ rawField(rawProduct, cLinkAfiliado) = empty

\* the object processProductData builds, with the discount it calculates when
\* none is given
normalizedProduct(rawProduct) ==
    LET preco_original == parseFloat(rawField(rawProduct, cPrecoOriginal))
        preco_promocional == parseFloat(rawField(rawProduct, cPrecoPromocional))
        desconto_percentual == parseInt(rawField(rawProduct, cDescontoPercentual))
    IN [ id |-> rawField(rawProduct, cId),
         titulo |-> orElse(rawField(rawProduct, cTitulo), empty),
         descricao |-> orElse(rawField(rawProduct, cDescricao), empty),
         preco_original |-> preco_original,
         preco_promocional |-> preco_promocional,
         desconto_percentual |->
             IF desconto_percentual = 0 /\ preco_original > 0
             THEN roundQuotient(100 * (preco_original - preco_promocional),
                                preco_original)
             ELSE desconto_percentual,
         link_afiliado |-> orElse(rawField(rawProduct, cLinkAfiliado), empty),
         imagens_base64 |-> parseImageArray(rawField(rawProduct, cImagensBase64)),
         categoria_principal |->
             orElse(rawField(rawProduct, cCategoriaPrincipal), sOutros),
         nichos |-> parseStringArray(rawField(rawProduct, cNichos)),
         plataforma |-> orElse(rawField(rawProduct, cPlataforma), sDesconhecida),
         avaliacao |-> parseFloat(rawField(rawProduct, cAvaliacao)),
         vendas |-> parseInt(rawField(rawProduct, cVendas)),
         data_inicio_promocao |-> parseDate(rawField(rawProduct, cDataInicioPromocao)),
         data_fim_promocao |-> parseDate(rawField(rawProduct, cDataFimPromocao)),
         data_publicacao |-> parseDate(rawField(rawProduct, cDataPublicacao)),
         status |-> orElse(rawField(rawProduct, cStatus), sPublished) ]

\* processProductData without the check of the promotional price
processProductDataKeepingFree(rawProduct) ==
    IF missingRequired(rawProduct) THEN <<>>
    ELSE << normalizedProduct(rawProduct) >>

\* CSVParser.processProductData: <<>> for null, <<product>> for a product
processProductData(rawProduct) ==
    IF missingRequired(rawProduct) THEN <<>>
    ELSE IF normalizedProduct(rawProduct).preco_promocional <= 0 THEN <<>>
    ELSE << normalizedProduct(rawProduct) >>

\* Utils.getPlaceholderImage(300, 300)
placeholderImage ==
    <<"d","a","t","a",":","i","m","a","g","e","/","s","v","g","+","x","m","l",
      ";","b","a","s","e","6","4",",","C","i","A","g","I","C","A","g","I","C",
      "A","g","P","H","N","2","Z","y","B","3","a","W","R","0","a","D","0","i",
      "M","z","A","w","I","i","B","o","Z","W","l","n","a","H","Q","9","I","j",
      "M","w","M","C","I","g","e","G","1","s","b","n","M","9","I","m","h","0",
      "d","H","A","6","L","y","9","3","d","3","c","u","d","z","M","u","b","3",
      "J","n","L","z","I","w","M","D","A","v","c","3","Z","n","I","j","4","K",
      "I","C","A","g","I","C","A","g","I","C","A","g","I","C","A","g","P","H",
      "J","l","Y","3","Q","g","d","2","l","k","d","G","g","9","I","j","E","w",
      "M","C","U","i","I","G","h","l","a","W","d","o","d","D","0","i","M","T",
      "A","w","J","S","I","g","Z","m","l","s","b","D","0","i","I","2","R","k",
      "Z","C","I","v","P","g","o","g","I","C","A","g","I","C","A","g","I","C",
      "A","g","I","C","A","8","d","G","V","4","d","C","B","4","P","S","I","1",
      "M","C","U","i","I","H","k","9","I","j","U","w","J","S","I","g","Z","m",
      "9","u","d","C","1","m","Y","W","1","p","b","H","k","9","I","k","F","y",
      "a","W","F","s","I","i","B","m","b","2","5","0","L","X","N","p","e","m",
      "U","9","I","j","E","0","I","i","B","m","a","W","x","s","P","S","I","j",
      "O","T","k","5","I","i","B","0","Z","X","h","0","L","W","F","u","Y","2",
      "h","v","c","j","0","i","b","W","l","k","Z","G","x","l","I","i","B","k",
      "e","T","0","i","L","j","N","l","b","S","I","+","C","i","A","g","I","C",
      "A","g","I","C","A","g","I","C","A","g","I","C","A","g","I","C","B","J",
      "b","W","F","n","Z","W","0","g","b","u","N","v","I","G","R","p","c","3",
      "B","v","b","u","1","2","Z","W","w","K","I","C","A","g","I","C","A","g",
      "I","C","A","g","I","C","A","g","P","C","9","0","Z","X","h","0","P","g",
      "o","g","I","C","A","g","I","C","A","g","I","D","w","v","c","3","Z","n",
      "P","g","o","g","I","C","A","g">>

\* The texts of the six sample products
sample1_id == <<"s","a","m","p","l","e","1">>
sample1_titulo ==
    <<"F","o","n","e"," ","d","e"," ","O","u","v","i","d","o"," ","B","l","u",
      "e","t","o","o","t","h"," ","5",".","0"," ","c","o","m"," ","C","a","n",
      "c","e","l","a","m","e","n","t","o"," ","d","e"," ","R","u","í","d",
      "o">>
sample1_descricao ==
    <<"F","o","n","e"," ","d","e"," ","o","u","v","i","d","o"," ","s","e","m",
      " ","f","i","o"," ","c","o","m"," ","b","a","t","e","r","i","a"," ","d",
      "e"," ","2","0"," ","h","o","r","a","s",","," ","r","e","s","i","s","t",
      "e","n","t","e"," ","à"," ","á","g","u","a"," ","I","P","X","7"," ","e",
      " ","m","i","c","r","o","f","o","n","e"," ","e","m","b","u","t","i","d",
      "o"," ","p","a","r","a"," ","c","h","a","m","a","d","a","s",".">>
sample1_link_afiliado ==
    <<"h","t","t","p","s",":","/","/","s","h","o","p","e","e",".","c","o","m",
      ".","b","r","/","p","r","o","d","u","t","o","/","e","x","e","m","p","l",
      "o","1">>
sample1_categoria_principal == <<"E","l","e","t","r","ô","n","i","c","o","s">>
sample1_plataforma == <<"S","h","o","p","e","e">>
sample2_id == <<"s","a","m","p","l","e","2">>
sample2_titulo ==
    <<"S","m","a","r","t","w","a","t","c","h"," ","F","i","t","n","e","s","s",
      " ","c","o","m"," ","M","o","n","i","t","o","r"," ","C","a","r","d","í",
      "a","c","o">>
sample2_descricao ==
    <<"R","e","l","ó","g","i","o"," ","i","n","t","e","l","i","g","e","n","t",
      "e"," ","c","o","m"," ","m","o","n","i","t","o","r","a","m","e","n","t",
      "o"," ","d","e"," ","s","a","ú","d","e"," ","2","4","/","7",","," ","G",
      "P","S"," ","i","n","t","e","g","r","a","d","o"," ","e"," ","r","e","s",
      "i","s","t","ê","n","c","i","a"," ","à"," ","á","g","u","a",".">>
sample2_link_afiliado ==
    <<"h","t","t","p","s",":","/","/","a","m","a","z","o","n",".","c","o","m",
      ".","b","r","/","p","r","o","d","u","t","o","/","e","x","e","m","p","l",
      "o","2">>
sample2_categoria_principal == <<"E","l","e","t","r","ô","n","i","c","o","s">>
sample2_plataforma == <<"A","m","a","z","o","n">>
sample3_id == <<"s","a","m","p","l","e","3">>
sample3_titulo ==
    <<"C","a","r","r","e","g","a","d","o","r"," ","P","o","r","t","á","t","i",
      "l"," ","2","0","0","0","0","m","A","h"," ","F","a","s","t"," ","C","h",
      "a","r","g","e">>
sample3_descricao ==
    <<"P","o","w","e","r"," ","b","a","n","k"," ","d","e"," ","a","l","t","a",
      " ","c","a","p","a","c","i","d","a","d","e"," ","c","o","m"," ","c","a",
      "r","r","e","g","a","m","e","n","t","o"," ","r","á","p","i","d","o"," ",
      "e"," ","m","ú","l","t","i","p","l","a","s"," ","p","o","r","t","a","s",
      " ","U","S","B",".">>
sample3_link_afiliado ==
    <<"h","t","t","p","s",":","/","/","a","l","i","e","x","p","r","e","s","s",
      ".","c","o","m","/","p","r","o","d","u","t","o","/","e","x","e","m","p",
      "l","o","3">>
sample3_categoria_principal == <<"E","l","e","t","r","ô","n","i","c","o","s">>
sample3_plataforma == <<"A","l","i","E","x","p","r","e","s","s">>
sample4_id == <<"s","a","m","p","l","e","4">>
sample4_titulo ==
    <<"C","a","m","i","s","e","t","a"," ","B","á","s","i","c","a"," ","1","0",
      "0","%"," ","A","l","g","o","d","ã","o">>
sample4_descricao ==
    <<"C","a","m","i","s","e","t","a"," ","c","o","n","f","o","r","t","á","v",
      "e","l"," ","e"," ","v","e","r","s","á","t","i","l",","," ","d","i","s",
      "p","o","n","í","v","e","l"," ","e","m"," ","v","á","r","i","a","s"," ",
      "c","o","r","e","s"," ","e"," ","t","a","m","a","n","h","o","s",".">>
sample4_link_afiliado ==
    <<"h","t","t","p","s",":","/","/","m","a","g","a","z","i","n","e","l","u",
      "i","z","a",".","c","o","m",".","b","r","/","p","r","o","d","u","t","o",
      "/","e","x","e","m","p","l","o","4">>
sample4_categoria_principal == <<"M","o","d","a">>
sample4_plataforma ==
    <<"M","a","g","a","z","i","n","e"," ","L","u","i","z","a">>
sample5_id == <<"s","a","m","p","l","e","5">>
sample5_titulo ==
    <<"L","u","m","i","n","á","r","i","a"," ","L","E","D"," ","I","n","t","e",
      "l","i","g","e","n","t","e"," ","R","G","B">>
sample5_descricao ==
    <<"L","u","m","i","n","á","r","i","a"," ","c","o","m"," ","c","o","n","t",
      "r","o","l","e"," ","p","o","r"," ","a","p","l","i","c","a","t","i","v",
      "o",","," ","m","i","l","h","õ","e","s"," ","d","e"," ","c","o","r","e",
      "s"," ","e"," ","s","i","n","c","r","o","n","i","z","a","ç","ã","o"," ",
      "c","o","m"," ","m","ú","s","i","c","a",".">>
sample5_link_afiliado ==
    <<"h","t","t","p","s",":","/","/","t","e","m","u",".","c","o","m","/","p",
      "r","o","d","u","t","o","/","e","x","e","m","p","l","o","5">>
sample5_categoria_principal ==
    <<"C","a","s","a"," ","e"," ","D","e","c","o","r","a","ç","ã","o">>
sample5_plataforma == <<"T","E","M","U">>
sample6_id == <<"s","a","m","p","l","e","6">>
sample6_titulo ==
    <<"M","o","u","s","e"," ","G","a","m","e","r"," ","R","G","B"," ","1","2",
      "0","0","0"," ","D","P","I">>
sample6_descricao ==
    <<"M","o","u","s","e"," ","p","a","r","a"," ","j","o","g","o","s"," ","c",
      "o","m"," ","s","e","n","s","o","r"," ","ó","p","t","i","c","o"," ","d",
      "e"," ","a","l","t","a"," ","p","r","e","c","i","s","ã","o",","," ","7",
      " ","b","o","t","õ","e","s"," ","p","r","o","g","r","a","m","á","v","e",
      "i","s"," ","e"," ","i","l","u","m","i","n","a","ç","ã","o"," ","R","G",
      "B",".">>
sample6_link_afiliado ==
    <<"h","t","t","p","s",":","/","/","s","h","o","p","e","e",".","c","o","m",
      ".","b","r","/","p","r","o","d","u","t","o","/","e","x","e","m","p","l",
      "o","6">>
sample6_categoria_principal == <<"E","l","e","t","r","ô","n","i","c","o","s">>
sample6_plataforma == <<"S","h","o","p","e","e">>

\* CSVParser.getSampleData
getSampleData ==
    <<
    [ id |-> sample1_id,
      titulo |-> sample1_titulo,
      descricao |-> sample1_descricao,
      preco_original |-> 19990,
      preco_promocional |-> 9990,
      desconto_percentual |-> 5000,
      link_afiliado |-> sample1_link_afiliado,
      imagens_base64 |-> << placeholderImage >>,
      categoria_principal |-> sample1_categoria_principal,
      nichos |-> << sOfertasRelampago, sNovidades >>,
      plataforma |-> sample1_plataforma,
      avaliacao |-> 480,
      vendas |-> 150000,
      data_inicio_promocao |-> << 479 >>,
      data_fim_promocao |-> << 487 >>,
      data_publicacao |-> << 491 >>,
      status |-> sPublished ],
    [ id |-> sample2_id,
      titulo |-> sample2_titulo,
      descricao |-> sample2_descricao,
      preco_original |-> 29990,
      preco_promocional |-> 14990,
      desconto_percentual |-> 5000,
      link_afiliado |-> sample2_link_afiliado,
      imagens_base64 |-> << placeholderImage >>,
      categoria_principal |-> sample2_categoria_principal,
      nichos |-> << sMaisVendidos >>,
      plataforma |-> sample2_plataforma,
      avaliacao |-> 450,
      vendas |-> 80000,
      data_inicio_promocao |-> << 479 >>,
      data_fim_promocao |-> << 511 >>,
      data_publicacao |-> << 491 >>,
      status |-> sPublished ],
    [ id |-> sample3_id,
      titulo |-> sample3_titulo,
      descricao |-> sample3_descricao,
      preco_original |-> 8990,
      preco_promocional |-> 4490,
      desconto_percentual |-> 5000,
      link_afiliado |-> sample3_link_afiliado,
      imagens_base64 |-> << placeholderImage >>,
      categoria_principal |-> sample3_categoria_principal,
      nichos |-> << sOfertasRelampago >>,
      plataforma |-> sample3_plataforma,
      avaliacao |-> 430,
      vendas |-> 220000,
      data_inicio_promocao |-> << 479 >>,
      data_fim_promocao |-> << 487 >>,
      data_publicacao |-> << 491 >>,
      status |-> sPublished ],
    [ id |-> sample4_id,
      titulo |-> sample4_titulo,
      descricao |-> sample4_descricao,
      preco_original |-> 3990,
      preco_promocional |-> 1990,
      desconto_percentual |-> 5000,
      link_afiliado |-> sample4_link_afiliado,
      imagens_base64 |-> << placeholderImage >>,
      categoria_principal |-> sample4_categoria_principal,
      nichos |-> << sNovidades >>,
      plataforma |-> sample4_plataforma,
      avaliacao |-> 420,
      vendas |-> 50000,
      data_inicio_promocao |-> << 479 >>,
      data_fim_promocao |-> << 535 >>,
      data_publicacao |-> << 491 >>,
      status |-> sPublished ],
    [ id |-> sample5_id,
      titulo |-> sample5_titulo,
      descricao |-> sample5_descricao,
      preco_original |-> 12990,
      preco_promocional |-> 6490,
      desconto_percentual |-> 5000,
      link_afiliado |-> sample5_link_afiliado,
      imagens_base64 |-> << placeholderImage >>,
      categoria_principal |-> sample5_categoria_principal,
      nichos |-> << sMaisVendidos, sNovidades >>,
      plataforma |-> sample5_plataforma,
      avaliacao |-> 460,
      vendas |-> 120000,
      data_inicio_promocao |-> << 479 >>,
      data_fim_promocao |-> << 559 >>,
      data_publicacao |-> << 491 >>,
      status |-> sPublished ],
    [ id |-> sample6_id,
      titulo |-> sample6_titulo,
      descricao |-> sample6_descricao,
      preco_original |-> 15990,
      preco_promocional |-> 7990,
      desconto_percentual |-> 5000,
      link_afiliado |-> sample6_link_afiliado,
      imagens_base64 |-> << placeholderImage >>,
      categoria_principal |-> sample6_categoria_principal,
      nichos |-> << sOfertasRelampago, sMaisVendidos >>,
      plataforma |-> sample6_plataforma,
      avaliacao |-> 470,
      vendas |-> 95000,
      data_inicio_promocao |-> << 479 >>,
      data_fim_promocao |-> << 487 >>,
      data_publicacao |-> << 491 >>,
      status |-> sPublished ]
    >>

\* the object parseCSV builds from a line: a later column of the same name
\* overwrites an earlier one
rawProductOf(headers, values) ==
    [ h \in { headers[i] : i \in 1..Len(headers) } |->
        values[CHOOSE i \in 1..Len(headers) :
                  /\ headers[i] = h
                  /\ \A j \in 1..Len(headers) : headers[j] = h => j <= i] ]

\* the loop of parseCSV over the lines from the i-th on
RECURSIVE parseLines(_, _, _)
parseLines(lines, headers, i) ==
    IF i > Len(lines) THEN <<>>
    ELSE LET line == trim(lines[i])
             values == parseCSVLine(line)
         IN IF line = empty THEN parseLines(lines, headers, i + 1)
            ELSE IF Len(values) # Len(headers) THEN parseLines(lines, headers, i + 1)
            ELSE processProductData(rawProductOf(headers, values))
                 \o parseLines(lines, headers, i + 1)

\* CSVParser.parseCSV
parseCSV(csvText) ==
    LET lines == split(csvText, "\n")
    IN IF Len(lines) < 2 THEN getSampleData
       ELSE parseLines(lines, parseCSVLine(lines[1]), 2)

(***************************************************************************)
(* PromotionsApp.loadProducts on the SQLite file: the database, the table  *)
(* and the normalisation of a row                                          *)
(*                                                                         *)
(* A value of a row is null, a number or a text.  A database is the list   *)
(* of its tables in the order of sqlite_master; a table has a name, its    *)
(* columns and its rows, each row a function from the columns to values.   *)
(***************************************************************************)
sqlNull == [ type |-> "null" ]
sqlNumber(n) == [ type |-> "number", value |-> n ]
sqlText(s) == [ type |-> "string", value |-> s ]
undefined == [ type |-> "undefined" ]

tableCandidates == << "produtos", "products" >>

expectedCols ==
    << "id", "titulo", "descricao", "preco_original", "preco_promocional",
       "desconto_percentual", "link_afiliado", "imagens_base64", "categoria_principal",
       "nichos", "plataforma", "avaliacao", "vendas", "data_inicio_promocao",
       "data_fim_promocao", "data_publicacao", "status" >>

\* obj[c] after cols.forEach((c, i) => obj[c] = row[i])
objField(cols, row, c) ==
    IF \E i \in 1..Len(cols) : cols[i] = c THEN row[c] ELSE undefined

\* c in obj
inObj(cols, c) == \E i \in 1..Len(cols) : cols[i] = c

\* !v
falsy(v) ==
    \/ v.type \in {"null", "undefined"}
    \/ v.type = "string" /\ v.value = empty
    \/ v.type = "number" /\ v.value \in {0, NaN}

\* the value as the product holds it: a text or a number
jsValue(v) == v.value

\* v || fallback
valueOr(v, fallback) == IF falsy(v) THEN fallback ELSE jsValue(v)

\* String(v)
toString(v) ==
    CASE v.type = "null" -> <<"n","u","l","l">>
      [] v.type = "undefined" -> <<"u","n","d","e","f","i","n","e","d">>
      [] v.type = "number" -> numberToString(v.value)
      [] v.type = "string" -> v.value

\* Number(v) for a value that is not null
toNumber(v) ==
    CASE v.type = "number" -> v.value
      [] v.type = "string" -> stringToNumber(v.value)
      [] v.type = "undefined" -> NaN

\* (c in obj && obj[c] !== null) ? Number(obj[c]) : 0
numericField(cols, row, c) ==
    IF inObj(cols, c) /\ objField(cols, row, c).type # "null"
    THEN toNumber(objField(cols, row, c))
    ELSE 0

\* the images of a row; the image texts of the inputs are not JSON literals
imagesField(cols, row) ==
    LET v == objField(cols, row, "imagens_base64")
        trimmed == trim(toString(v))
        imagesArr == IF includes(trimmed, <<"|">>) THEN split(trimmed, "|")
                     ELSE IF includes(trimmed, <<",">>) THEN split(trimmed, ",")
                     ELSE << trimmed >>
    IN IF falsy(v) THEN <<>>
       ELSE SelectSeq([i \in 1..Len(imagesArr) |-> trim(imagesArr[i])],
                      LAMBDA s : s # empty)

nichosField(cols, row) ==
    LET v == objField(cols, row, "nichos")
    IN IF falsy(v) THEN <<>> ELSE splitTrimmed(toString(v), ",")

\* new Date(v) for a truthy value: a text is parsed, a number is the time
\* value; the time value of an invalid date is NaN
newDate(v) ==
    IF v.type = "string" THEN << dateParse(v.value) >> ELSE << v.value >>

dateField(cols, row, k) ==
    IF inObj(cols, k) /\ ~falsy(objField(cols, row, k))
    THEN newDate(objField(cols, row, k))
    ELSE NullDate

\* the callback of values.map in loadProducts
normalizeRow(cols, row) ==
    [ id |-> IF inObj(cols, "id") THEN toString(objField(cols, row, "id")) ELSE empty,
      titulo |-> valueOr(objField(cols, row, "titulo"), empty),
      descricao |-> valueOr(objField(cols, row, "descricao"), empty),
      link_afiliado |-> valueOr(objField(cols, row, "link_afiliado"), empty),
      categoria_principal |-> valueOr(objField(cols, row, "categoria_principal"), sOutros),
      plataforma |-> valueOr(objField(cols, row, "plataforma"), empty),
      status |-> valueOr(objField(cols, row, "status"), empty),
      preco_original |-> numericField(cols, row, "preco_original"),
      preco_promocional |-> numericField(cols, row, "preco_promocional"),
      desconto_percentual |-> numericField(cols, row, "desconto_percentual"),
      avaliacao |-> numericField(cols, row, "avaliacao"),
      vendas |-> numericField(cols, row, "vendas"),
      imagens_base64 |-> imagesField(cols, row),
      imagens |-> imagesField(cols, row),
      nichos |-> nichosField(cols, row),
      data_inicio_promocao |-> dateField(cols, row, "data_inicio_promocao"),
      data_fim_promocao |-> dateField(cols, row, "data_fim_promocao"),
      data_publicacao |-> dateField(cols, row, "data_publicacao") ]

\* the table the load reads: the first candidate name that exists, else the
\* first table of the database; <<>> when the database has no table
findTable(db) ==
    LET named(t) == { i \in 1..Len(db) : db[i].name = t }
    IN IF named(tableCandidates[1]) # {}
       THEN << db[CHOOSE i \in named(tableCandidates[1]) : TRUE] >>
       ELSE IF named(tableCandidates[2]) # {}
       THEN << db[CHOOSE i \in named(tableCandidates[2]) : TRUE] >>
       ELSE IF db # <<>> THEN << db[1] >>
       ELSE <<>>

\* expectedCols.filter(c => existingCols.includes(c))
colsToSelect(table) ==
    SelectSeq(expectedCols, LAMBDA c : \E i \in 1..Len(table.columns) : table.columns[i] = c)

\* The rows of loadProducts once the file is open: failed when no table is
\* found, no expected column exists or the query returns nothing
readDatabase(db) ==
    IF findTable(db) = <<>> THEN [ failed |-> TRUE, products |-> <<>> ]
    ELSE LET table == findTable(db)[1]
             cols == colsToSelect(table)
         IN IF cols = <<>> \/ table.rows = <<>>
            THEN [ failed |-> TRUE, products |-> <<>> ]
            ELSE [ failed |-> FALSE,
                   products |-> [ i \in 1..Len(table.rows) |->
                                     normalizeRow(cols, table.rows[i]) ] ]

(***************************************************************************)
(* The sheets and databases the loads read                                 *)
(***************************************************************************)
\* The header line of the sheet
headerLine ==
    <<"i","d",",","t","i","t","u","l","o",",","d","e","s","c","r","i","c","a",
      "o",",","p","r","e","c","o","_","o","r","i","g","i","n","a","l",",","p",
      "r","e","c","o","_","p","r","o","m","o","c","i","o","n","a","l",",","d",
      "e","s","c","o","n","t","o","_","p","e","r","c","e","n","t","u","a","l",
      ",","l","i","n","k","_","a","f","i","l","i","a","d","o",",","i","m","a",
      "g","e","n","s","_","b","a","s","e","6","4",",","c","a","t","e","g","o",
      "r","i","a","_","p","r","i","n","c","i","p","a","l",",","n","i","c","h",
      "o","s",",","p","l","a","t","a","f","o","r","m","a",",","a","v","a","l",
      "i","a","c","a","o",",","v","e","n","d","a","s",",","d","a","t","a","_",
      "i","n","i","c","i","o","_","p","r","o","m","o","c","a","o",",","d","a",
      "t","a","_","f","i","m","_","p","r","o","m","o","c","a","o",",","d","a",
      "t","a","_","p","u","b","l","i","c","a","c","a","o",",","s","t","a","t",
      "u","s">>

\* the row of the loading scenario: no discount given
lineScenario ==
    <<"1",",","\"","F","o","n","e","\"",",","\"","D","e","s","c","\"",",","1",
      "0","0",",","5","0",",",",","h","t","t","p",":","/","/","x",",","i","m",
      "g","1","|","i","m","g","2",",","E","l","e","t","r","o","n","i","c","o",
      "s",",","p","r","o","m","o",",","S","h","o","p","e","e",",","4",".","5",
      ",","1","0",",",",",",",",","p","u","b","l","i","s","h","e","d">>
\* a quoted title with a comma and quotes, no discount given and a promotional
\* price 62.5 percent above the original one, dates and a rating that is not
\* a number
lineQuoted ==
    <<"2",",","\"","T","V",","," ","\"","\"","4","K","\"","\"","\"",",",",",
      "8",",","1","3",",",",","u",",",",",",","\"","n","o","v","i","d","a",
      "d","e","s",","," ","m","a","i","s"," ","v","e","n","d","i","d","o","s",
      "\"",",",",","x",",","7",".","9",",","2","0","2","5",",","x",",","2",
      "0","2","5","-","0","1","-","2","1",",">>
\* a promotional price of 0
lineFree ==
    <<"4",",","C","a","b","o",",",",","1","0",",","0",",","5",",","u",",",",",
      ",",",",",",",",",",",",",",",">>
\* seven fields
lineShort == <<"6",",","C","a","m",",",",","1","0",",","5",",",",","u">>
\* the id of the scenario row again, texts in the number columns, a discount of 150
lineTexts ==
    <<"1",",","K","i","t",",",",","a","b","c",",","1","2","a","b","c",",","1",
      "5","0",",","u",",",",",",",",",",",",",",",",",",",",">>
\* no affiliate link
lineNoLink ==
    <<"9",",","B","a","g",",",",","8",",","5",",",",",",",",",",",",",",",",",
      ",",",",",",",">>

LinePool == { lineScenario, lineQuoted, lineTexts, lineFree, lineShort, lineNoLink }

\* lines.join('\n')
RECURSIVE joinLines(_)
joinLines(lines) ==
    IF Len(lines) = 1 THEN lines[1]
    ELSE lines[1] \o <<"\n">> \o joinLines(Tail(lines))

\* The texts of the sheet: the header line and up to MaxLines lines after it
CsvTexts == { joinLines(<<headerLine>> \o ls) : ls \in SeqsUpTo(LinePool, MaxLines) }

\* The values of a row of the database, by column
rowPlain ==
    [ id |-> sqlNumber(100), titulo |-> sqlText(<<"F","o","n","e">>),
      preco_original |-> sqlNumber(10000), preco_promocional |-> sqlNumber(5000),
      desconto_percentual |-> sqlNull, link_afiliado |-> sqlText(<<"u">>),
      data_publicacao |-> sqlText(d2025), status |-> sqlText(sPublished),
      estoque |-> sqlNumber(300), nome |-> sqlText(<<"a">>), valor |-> sqlNumber(100) ]

\* the id of rowPlain again, texts in number columns, a discount of 150, a
\* text that is not a date, no status
rowTexts ==
    [ id |-> sqlNumber(100), titulo |-> sqlText(<<"T","V">>),
      preco_original |-> sqlText(<<"a","b","c">>),
      preco_promocional |-> sqlText(<<" ","1","2"," ">>),
      desconto_percentual |-> sqlNumber(15000), link_afiliado |-> sqlNull,
      data_publicacao |-> sqlText(<<"x">>), status |-> sqlNull,
      estoque |-> sqlNull, nome |-> sqlText(<<"b">>), valor |-> sqlNull ]

\* nothing but nulls, a price of 0 and a negative discount
rowNulls ==
    [ id |-> sqlNull, titulo |-> sqlNull,
      preco_original |-> sqlNull, preco_promocional |-> sqlNumber(0),
      desconto_percentual |-> sqlNumber(-500), link_afiliado |-> sqlNull,
      data_publicacao |-> sqlNull, status |-> sqlText(empty),
      estoque |-> sqlNull, nome |-> sqlNull, valor |-> sqlNull ]

RowPool == { rowPlain, rowTexts, rowNulls }

colsProdutos ==
    << "id", "titulo", "preco_original", "preco_promocional", "desconto_percentual",
       "link_afiliado", "data_publicacao", "status", "estoque" >>
colsNoId == << "titulo", "preco_promocional" >>
colsForeign == << "nome", "valor" >>

\* the row of a table: the values of its columns
rowOf(columns, values) ==
    [ c \in { columns[i] : i \in 1..Len(columns) } |-> values[c] ]

Tables ==
    { [ name |-> name, columns |-> columns,
        rows |-> [ i \in 1..Len(rs) |-> rowOf(columns, rs[i]) ] ] :
        name \in { "produtos", "itens" },
        columns \in { colsProdutos, colsForeign },
        rs \in SeqsUpTo(RowPool, MaxRows) }

\* The databases: no table, one table, a table without the column id, and a
\* foreign table before a table of the second candidate name
Databases ==
    { <<>> } \cup { << t >> : t \in Tables }
    \cup { << [ name |-> "produtos", columns |-> colsNoId,
                rows |-> << rowOf(colsNoId, rowPlain), rowOf(colsNoId, rowNulls) >> ] >>,
           << [ name |-> "itens", columns |-> colsForeign,
                rows |-> << rowOf(colsForeign, rowPlain) >> ],
              [ name |-> "products", columns |-> colsProdutos,
                rows |-> << rowOf(colsProdutos, rowTexts) >> ] >> }

\* What the fetch of the sheet comes back with
CsvResponses ==
    { [ kind |-> "networkError" ], [ kind |-> "status" ], [ kind |-> "bodyError" ] }
    \cup { [ kind |-> "ok", text |-> text ] : text \in CsvTexts }

\* What the start of sql.js and the fetch of data/produtos.db come back with
SqliteResponses ==
    { [ kind |-> "sqlJsError" ], [ kind |-> "networkError" ], [ kind |-> "status" ],
      [ kind |-> "corrupt" ] }
    \cup { [ kind |-> "ok", db |-> db ] : db \in Databases }

(***************************************************************************)
(* ProductRenderer.normalizeImageSrc                                       *)
(***************************************************************************)
sDataScheme == <<"d","a","t","a",":">>
sHttp == <<"h","t","t","p",":","/","/">>
sHttps == <<"h","t","t","p","s",":","/","/">>
sBase64Mark == <<";","b","a","s","e","6","4",",">>
sPngPrefix == <<"d","a","t","a",":","i","m","a","g","e","/","p","n","g",";","b","a","s","e","6","4",",">>

AsciiLetters ==
    { UpperCase[i] : i \in 1..Len(UpperCase) } \cup { LowerCase[i] : i \in 1..Len(LowerCase) }

\* String.prototype.startsWith
startsWith(s, t) == Len(s) >= Len(t) /\ SubSeq(s, 1, Len(t)) = t

\* /^https?:\/\//i
isHttpUrl(s) ==
    \/ startsWith(toLowerCase(s), sHttp)
    \/ startsWith(toLowerCase(s), sHttps)

\* a character of [a-z0-9\/\-\+] under the i flag
isMimeChar(c) == c \in AsciiLetters \/ isDigit(c) \/ c \in { "/", "-", "+" }

\* /^[a-z0-9\/\-\+]+;base64,/i: the class holds no ';', so the run ends at
\* the first one
isMimeBase64(s) ==
    \E p \in 2..Len(s) :
        /\ \A i \in 1..(p - 1) : isMimeChar(s[i])
        /\ p + Len(sBase64Mark) - 1 <= Len(s)
        /\ toLowerCase(SubSeq(s, p, p + Len(sBase64Mark) - 1)) = sBase64Mark

\* a character of [A-Za-z0-9+/=\s]
isBase64OrSpace(c) ==
    c \in AsciiLetters \/ isDigit(c) \/ c \in { "+", "/", "=" } \/ c \in WhiteSpace

\* /^[A-Za-z0-9+/=\s]{100,}$/
isLongBase64(s) ==
    /\ Len(s) >= base64MinLength
    /\ \A i \in 1..Len(s) : isBase64OrSpace(s[i])

\* s.replace(/\s+/g, '')
removeSpaces(s) == SelectSeq(s, LAMBDA c : c \notin WhiteSpace)

\* normalizeImageSrc leaving the blanks of a base64 payload in place
normalizeImageSrcKeepingSpaces(str) ==
    IF str = empty THEN [ isNull |-> TRUE, src |-> empty ]
    ELSE LET s == trim(str)
         IN [ isNull |-> FALSE,
              src |-> IF startsWith(s, sDataScheme) THEN s
                      ELSE IF isHttpUrl(s) THEN s
                      ELSE IF isMimeBase64(s) THEN sDataScheme \o s
                      ELSE IF isLongBase64(s) THEN sPngPrefix \o s
                      ELSE s ]

\* the value returned: null, or the string src
normalizeImageSrc(str) ==
    IF str = empty THEN [ isNull |-> TRUE, src |-> empty ]
    ELSE LET s == trim(str)
         IN [ isNull |-> FALSE,
              src |-> IF startsWith(s, sDataScheme) THEN s
                      ELSE IF isHttpUrl(s) THEN s
                      ELSE IF isMimeBase64(s) THEN sDataScheme \o s
                      ELSE IF isLongBase64(s) THEN sPngPrefix \o removeSpaces(s)
                      ELSE s ]

\* the image strings: a scheme or media type or nothing, then a file name, a
\* list or a base64 payload around the length where the payload rule starts,
\* whole or broken into two lines, with blanks around
sChunk == <<"a","G","V","s","b","G","8","t","d","2","9","y","b","G","Q","=">>

RECURSIVE Repeat(_, _)
Repeat(s, n) == IF n = 0 THEN <<>> ELSE s \o Repeat(s, n - 1)

payload(n) == SubSeq(Repeat(sChunk, (n \div Len(sChunk)) + 1), 1, n)

brokenPayload(n) ==
    SubSeq(payload(n), 1, n \div 2) \o << "\n" >> \o SubSeq(payload(n), (n \div 2) + 1, n)

ImagePrefixes ==
    { <<>>, sDataScheme, <<"h","t","t","p","s",":","/","/","x","/">>, <<"H","T","T","P",":","/","/","x","/">>, <<"i","m","a","g","e","/","p","n","g",";","b","a","s","e","6","4",",">>, <<"I","m","a","g","e","/","J","P","E","G",";","B","A","S","E","6","4",",">>, <<"i","m","g","/">> }

ImageBodies ==
    { <<>>, <<"y",".","p","n","g">>, <<"a",".","p","n","g",",","b",".","p","n","g">>,
      payload(base64MinLength - 1), payload(base64MinLength),
      payload(base64MinLength + 1),
      brokenPayload(base64MinLength - 1), brokenPayload(base64MinLength - 2),
      payload(base64MinLength) \o << "!" >> }

ImageStrings ==
    { Repeat(<< " " >>, l) \o prefix \o body \o Repeat(<< " " >>, r) :
          l \in 0..MaxPad, r \in 0..MaxPad, prefix \in ImagePrefixes, body \in ImageBodies }

(***************************************************************************)
(* State machine                                                           *)
(***************************************************************************)
DefaultFilters == [search |-> empty, platform |-> empty, category |-> empty, sort |-> discount]

\* No image string normalized yet
InitNoImage ==
    /\ imgStr = <<>>
    /\ imgSrc = <<>>

\* The search box empty, no timeout pending
InitNoSearch ==
    /\ searchBox = empty
    /\ timers = <<>>
    /\ now = 0
    /\ lastEvent = <<>>
    /\ passes = 0

InitPage == InitNoImage /\ InitNoSearch

\* The page before any load: the fields the constructor of PromotionsApp sets
InitApp ==
    /\ backend = "csv"
    /\ loadPc = "idle"
    /\ caller = "init"
    /\ appProducts = <<>>
    /\ lastUpdateTime = "null"
    /\ overlay = FALSE
    /\ notifications = <<>>
    /\ escaped = FALSE
    /\ fetched = [ kind |-> "none" ]
    /\ exported = <<>>

Init ==
    /\ allProducts = <<>>
    /\ filteredProducts = <<>>
    /\ currentFilters = DefaultFilters
    /\ currentPage = 1
    /\ filters = <<>>
    /\ url \in InitialQueries
    /\ gridEmpty = FALSE
    /\ grid = <<>>
    /\ nicheGrids = [t \in NicheTags |-> <<>>]
    /\ nichesHidden = FALSE
    /\ loadMoreVisible = FALSE
    /\ paginated = <<>>
    /\ stalePasses = 0
    /\ lastOp = "constructor"
    /\ threw = FALSE
    /\ InitApp
    /\ InitPage

\* renderAllProductsSection and the body of loadMoreProducts: the page is
\* drawn into #produtos-grid and the button follows the returned flag
renderAllProductsSection(products, page) ==
    \E r \in { renderProductsWithPagination(products, page, itemsPerPage, gridEmpty, grid) } :
        /\ paginated' = r.selected
        /\ gridEmpty' = r.empty
        /\ grid' = r.cards
        /\ loadMoreVisible' = r.hasMore

\* applyFilters with renderFilteredProducts and updateFilterStats, on the
\* collection, filter state and page the handler has just set
\* the collection after a pass that sorts the array it is given where it
\* stands: when no product is filtered away by search, platform or category
\* the array sorted is the collection itself
collectionSortedInPlace(products, cf) ==
    IF cf.search = empty /\ cf.platform = empty /\ cf.category = empty
    THEN sortProducts(products, cf.sort)
    ELSE products

\* the collection after a pass: applyFilters spreads this.allProducts into a
\* new array (line 99), filter returns new arrays, sortProducts sorts a copy
\* of its argument (line 140) and getProductsByNiche filters into a new array
collectionAfterPass(products, cf) == products

\* this.allProducts is the array the pass reads: setProducts has assigned its
\* argument to it before the call, every other caller leaves it in place
applyFilters(products, cf, page) ==
    /\ filteredProducts' = applyFiltersResult(products, cf)
    /\ allProducts' = collectionAfterPass(products, cf)
    /\ nicheGrids' = [t \in NicheTags |-> renderNicheSection(products, t, nicheLimit)]
    /\ renderAllProductsSection(filteredProducts', page)
    /\ nichesHidden' = hasActiveFilters(cf)
    /\ stalePasses' = IF page = 1 THEN 0 ELSE stalePasses + 1

setProducts(products) ==
    /\ currentPage = 1 \/ stalePasses < MaxStale
    /\ applyFilters(products, currentFilters, currentPage)
    /\ lastOp' = "setProducts"
    /\ threw' = FALSE
    /\ UNCHANGED <<currentFilters, currentPage, filters, url>>

\* line 91 assigns into this.filters, which the constructor never creates
updateFilter(filterType, value) ==
    /\ currentFilters' = [currentFilters EXCEPT ![filterType] = value]
    /\ currentPage' = 1
    /\ applyFilters(allProducts, currentFilters', 1)
    /\ url' = IF value # empty THEN setQueryParam(url, filterType, value)
              ELSE removeQueryParam(url, filterType)
    /\ IF filters = <<>>
       THEN /\ threw' = TRUE
            /\ filters' = filters
       ELSE /\ threw' = FALSE
            /\ filters' = << [k \in (DOMAIN filters[1]) \cup {filterType} |->
                                 IF k = filterType THEN value ELSE filters[1][k]] >>
    /\ lastOp' = "updateFilter"

RECURSIVE removeAll(_, _)
removeAll(u, params) ==
    IF params = <<>> THEN u
    ELSE removeAll(removeQueryParam(u, Head(params)), Tail(params))

clearFilters ==
    /\ currentFilters' = DefaultFilters
    /\ currentPage' = 1
    /\ url' = removeAll(url, <<"search", "platform", "category", "sort">>)
    /\ applyFilters(allProducts, DefaultFilters, 1)
    /\ filters' = << <<>> >>
    /\ lastOp' = "clearFilters"
    /\ threw' = FALSE

loadFiltersFromURL ==
    /\ currentPage = 1 \/ stalePasses < MaxStale
    /\ currentFilters' = [ search |-> paramOr(url, "search", empty),
                           platform |-> paramOr(url, "platform", empty),
                           category |-> paramOr(url, "category", empty),
                           sort |-> paramOr(url, "sort", discount) ]
    /\ applyFilters(allProducts, currentFilters', currentPage)
    /\ lastOp' = "loadFiltersFromURL"
    /\ threw' = FALSE
    /\ UNCHANGED <<currentPage, filters, url>>

loadMoreProducts ==
    /\ currentPage < MaxPage
    /\ currentPage' = currentPage + 1
    /\ renderAllProductsSection(filteredProducts, currentPage')
    /\ lastOp' = "loadMoreProducts"
    /\ threw' = FALSE
    /\ UNCHANGED <<allProducts, filteredProducts, currentFilters, filters, url,
                   nicheGrids, nichesHidden, stalePasses>>

\* FiltersManager.applyFilters called on the fields as they stand
applyFiltersCall ==
    /\ currentPage = 1 \/ stalePasses < MaxStale
    /\ applyFilters(allProducts, currentFilters, currentPage)
    /\ lastOp' = "applyFilters"
    /\ threw' = FALSE
    /\ UNCHANGED <<currentFilters, currentPage, filters, url>>

(***************************************************************************)
(* Life cycle of the page: long collections, paging, refresh               *)
(***************************************************************************)
Next ==
    \/ \E collection \in Collections : setProducts(collection) /\ UNCHANGED <<appVars, pageVars>>
    \/ \E filterType \in Dims : \E value \in Values(filterType) :
          updateFilter(filterType, value) /\ UNCHANGED <<appVars, pageVars>>
    \/ clearFilters /\ UNCHANGED <<appVars, pageVars>>
    \/ loadFiltersFromURL /\ UNCHANGED <<appVars, pageVars>>
    \/ loadMoreProducts /\ UNCHANGED <<appVars, pageVars>>

Spec == Init /\ [][Next]_vars

(***************************************************************************)
(* Filter state and query string: every dimension, short collections       *)
(***************************************************************************)
UrlCollections == { <<>>, Collection(3, 0) }

NextUrl ==
    \/ \E collection \in UrlCollections : setProducts(collection) /\ UNCHANGED <<appVars, pageVars>>
    \/ \E filterType \in Dims : \E value \in UrlValues(filterType) :
          updateFilter(filterType, value) /\ UNCHANGED <<appVars, pageVars>>
    \/ clearFilters /\ UNCHANGED <<appVars, pageVars>>
    \/ loadFiltersFromURL /\ UNCHANGED <<appVars, pageVars>>
    \/ loadMoreProducts /\ UNCHANGED <<appVars, pageVars>>

SpecUrl == Init /\ [][NextUrl]_vars

(***************************************************************************)
(* The filter pass as a function of the collection and the filter state:  *)
(* the fields are set as setProducts and updateFilter set them, and the    *)
(* pass runs on them                                                       *)
(***************************************************************************)
InitFilter ==
    /\ allProducts \in SmallCollections
    /\ currentFilters \in FilterStates
    /\ filteredProducts = <<>>
    /\ currentPage = 1
    /\ filters = <<>>
    /\ url = <<>>
    /\ gridEmpty = FALSE
    /\ grid = <<>>
    /\ nicheGrids = [t \in NicheTags |-> <<>>]
    /\ nichesHidden = FALSE
    /\ loadMoreVisible = FALSE
    /\ paginated = <<>>
    /\ stalePasses = 0
    /\ lastOp = "constructor"
    /\ threw = FALSE
    /\ InitApp
    /\ InitPage

NextFilter == applyFiltersCall /\ UNCHANGED <<appVars, pageVars>>

SpecFilter == InitFilter /\ [][NextFilter]_vars

(***************************************************************************)
(* PromotionsApp: init, loadProducts and refreshProducts of the two builds *)
(* of the page, and the export of the filtered products                    *)
(***************************************************************************)
\* CSVParser.loadProducts rethrowing what it catches
CSVParser_loadProductsRethrowing(response) ==
    IF response.kind = "ok"
    THEN [ rejected |-> FALSE, loaded |-> parseCSV(response.text) ]
    ELSE [ rejected |-> TRUE, loaded |-> <<>> ]

\* CSVParser.loadProducts: the promise it returns, for a fetch that fails, that
\* answers with a status that is not ok, whose body cannot be read, or that
\* answers with the text of the sheet
CSVParser_loadProducts(response) ==
    IF response.kind = "ok"
    THEN [ rejected |-> FALSE, loaded |-> parseCSV(response.text) ]
    ELSE [ rejected |-> FALSE, loaded |-> getSampleData ]

\* what follows await this.loadProducts() in init and in refreshProducts once
\* the load has shown its messages: refreshProducts hides the overlay and shows the
\* success notification, init goes on to loadFiltersFromURL
afterLoad(shown, overlayNow) ==
    IF caller = "refresh"
    THEN /\ overlay' = FALSE
         /\ notifications' = shown \o << "success" >>
         /\ loadPc' = "idle"
    ELSE /\ overlay' = overlayNow
         /\ notifications' = shown
         /\ loadPc' = "loaded"

\* PromotionsApp.loadProducts of the CSV build with its caller's catch: a
\* rejection of CSVParser.loadProducts is thrown again and ends in showError
loadProductsFromCsv(response) ==
    /\ backend = "csv"
    /\ loadPc = "fetching"
    /\ fetched' = response
    /\ \E r \in { CSVParser_loadProducts(response) } :
          IF r.rejected
          THEN /\ escaped' = TRUE
               /\ notifications' = Append(notifications, "error")
               /\ overlay' = FALSE
               /\ loadPc' = "idle"
               /\ UNCHANGED <<appProducts, lastUpdateTime, filterVars>>
          ELSE /\ escaped' = FALSE
               /\ appProducts' = r.loaded
               /\ setProducts(r.loaded)
               /\ lastUpdateTime' = "set"
               /\ afterLoad(notifications, overlay)
    /\ exported' = <<>>
    /\ UNCHANGED <<backend, caller>>

\* loadProducts of the SQLite build failing without a message
sqliteOutcomeSilent(response) ==
    IF response.kind = "ok" /\ ~readDatabase(response.db).failed
    THEN [ error |-> FALSE, loaded |-> readDatabase(response.db).products ]
    ELSE [ error |-> response.kind # "ok", loaded |-> <<>> ]

\* loadProducts of the SQLite build up to setProducts: the rows it loads, or
\* the error it shows when sql.js does not start, the file is not fetched or
\* does not open, or the table, its columns or its rows are missing
sqliteOutcome(response) ==
    IF response.kind = "ok" /\ ~readDatabase(response.db).failed
    THEN [ error |-> FALSE, loaded |-> readDatabase(response.db).products ]
    ELSE [ error |-> TRUE, loaded |-> <<>> ]

\* PromotionsApp.loadProducts of the SQLite build and what its caller does next
loadProductsFromSqlite(response) ==
    /\ backend = "sqlite"
    /\ loadPc = "fetching"
    /\ fetched' = response
    /\ \E r \in { sqliteOutcome(response) } :
          /\ appProducts' = r.loaded
          /\ setProducts(r.loaded)
          /\ lastUpdateTime' = IF r.error THEN "null" ELSE "set"
          /\ IF r.error
             THEN afterLoad(Append(notifications, "error"), FALSE)
             ELSE afterLoad(notifications, overlay)
    /\ escaped' = FALSE
    /\ exported' = <<>>
    /\ UNCHANGED <<backend, caller>>

\* init after await this.loadProducts()
initContinue ==
    /\ loadPc = "loaded"
    /\ loadFiltersFromURL
    /\ overlay' = FALSE
    /\ loadPc' = "idle"
    /\ exported' = <<>>
    /\ UNCHANGED <<backend, caller, appProducts, lastUpdateTime, notifications, escaped,
                   fetched, pageVars>>

\* refreshProducts up to the fetch of loadProducts
refreshProducts ==
    /\ loadPc = "idle"
    /\ overlay' = TRUE
    /\ loadPc' = "fetching"
    /\ caller' = "refresh"
    /\ notifications' = <<>>
    /\ fetched' = [ kind |-> "pending" ]
    /\ exported' = <<>>
    /\ UNCHANGED <<backend, appProducts, lastUpdateTime, escaped, filterVars, pageVars>>

(***************************************************************************)
(* FiltersManager.exportFilteredProducts                                   *)
(*                                                                         *)
(* The text JSON.stringify writes is held as the JSON document it denotes: *)
(* a list of objects, each a function from the names of its members to     *)
(* JSON values (null, a number, a string, an array of strings).            *)
(***************************************************************************)
NumberFields == { "preco_original", "preco_promocional", "desconto_percentual",
                  "avaliacao", "vendas" }
DateFields == { "data_inicio_promocao", "data_fim_promocao", "data_publicacao" }
ArrayFields == { "imagens_base64", "imagens", "nichos" }

jsonNull == [ t |-> "null" ]

\* Date.prototype.toISOString, written as T and the time value
toISOString(time) == << "T" >> \o natToString(time)

\* The member JSON.stringify writes for the field f of a product: NaN and an
\* invalid date (whose toJSON is null) are written as null, a date as the
\* string of its toISOString
jsonMember(product, f) ==
    CASE f \in NumberFields ->
             IF product[f] = NaN THEN jsonNull ELSE [ t |-> "number", v |-> product[f] ]
      [] f \in DateFields ->
             IF product[f] = NullDate \/ product[f] = << NaN >> THEN jsonNull
             ELSE [ t |-> "string", v |-> toISOString(product[f][1]) ]
      [] f \in ArrayFields -> [ t |-> "array", v |-> product[f] ]
      [] OTHER -> [ t |-> "string", v |-> product[f] ]

\* JSON.stringify(this.filteredProducts, null, 2)
jsonStringify(list) ==
    [ i \in 1..Len(list) |-> [ f \in DOMAIN list[i] |-> jsonMember(list[i], f) ] ]

\* JSON.parse of a member: null, a number, a string or an array of strings
parseMember(member) ==
    CASE member.t = "null" -> [ t |-> "null" ]
      [] member.t = "number" -> [ t |-> "number", v |-> member.v ]
      [] member.t = "string" -> [ t |-> "string", v |-> member.v ]
      [] member.t = "array" -> [ t |-> "array", v |-> member.v ]

\* JSON.parse of the document
jsonParse(doc) ==
    [ i \in 1..Len(doc) |-> [ f \in DOMAIN doc[i] |-> parseMember(doc[i][f]) ] ]

\* The header row of the CSV export
exportHeaders ==
    << <<"T","í","t","u","l","o">>,
       <<"D","e","s","c","r","i","ç","ã","o">>,
       <<"P","r","e","ç","o"," ","O","r","i","g","i","n","a","l">>,
       <<"P","r","e","ç","o"," ","P","r","o","m","o","c","i","o","n","a","l">>,
       <<"D","e","s","c","o","n","t","o">>,
       <<"P","l","a","t","a","f","o","r","m","a">>,
       <<"C","a","t","e","g","o","r","i","a">>,
       <<"L","i","n","k">> >>

\* row.map(cell => `"${cell}"`).join(',')
RECURSIVE joinCells(_)
joinCells(row) ==
    IF row = <<>> THEN <<>>
    ELSE << "\"" >> \o Head(row) \o << "\"" >>
         \o (IF Len(row) = 1 THEN <<>> ELSE << "," >> \o joinCells(Tail(row)))

\* the cells of the row of a product, each as the template literal spells it
exportRow(product) ==
    << product.titulo,
       product.descricao,
       numberToString(product.preco_original),
       numberToString(product.preco_promocional),
       numberToString(product.desconto_percentual) \o << "%" >>,
       product.plataforma,
       product.categoria_principal,
       product.link_afiliado >>

exportCsv(list) ==
    joinLines(<< joinCells(exportHeaders) >>
              \o [ i \in 1..Len(list) |-> joinCells(exportRow(list[i])) ])

ExportFormats == { "json", "csv" }

exportFilteredProducts(format) ==
    /\ loadPc = "idle"
    /\ exported' = IF format = "csv"
                   THEN << [ format |-> format, data |-> exportCsv(filteredProducts) ] >>
                   ELSE << [ format |-> format, data |-> jsonStringify(filteredProducts) ] >>
    /\ lastOp' = "exportFilteredProducts"
    /\ threw' = FALSE
    /\ UNCHANGED <<allProducts, filteredProducts, currentFilters, currentPage, filters, url,
                   gridEmpty, grid, nicheGrids, nichesHidden, loadMoreVisible, paginated,
                   stalePasses>>
    /\ UNCHANGED <<backend, loadPc, caller, appProducts, lastUpdateTime, overlay,
                   notifications, escaped, fetched, pageVars>>

(***************************************************************************)
(* The loads of the page: both builds, every response of the fetch         *)
(***************************************************************************)
InitLoad ==
    /\ allProducts = <<>>
    /\ filteredProducts = <<>>
    /\ currentFilters = DefaultFilters
    /\ currentPage = 1
    /\ filters = <<>>
    /\ url \in InitialQueries
    /\ gridEmpty = FALSE
    /\ grid = <<>>
    /\ nicheGrids = [t \in NicheTags |-> <<>>]
    /\ nichesHidden = FALSE
    /\ loadMoreVisible = FALSE
    /\ paginated = <<>>
    /\ stalePasses = 0
    /\ lastOp = "constructor"
    /\ threw = FALSE
    /\ backend \in { "csv", "sqlite" }
    /\ loadPc = "fetching"
    /\ caller = "init"
    /\ appProducts = <<>>
    /\ lastUpdateTime = "null"
    /\ overlay = TRUE
    /\ notifications = <<>>
    /\ escaped = FALSE
    /\ fetched = [ kind |-> "pending" ]
    /\ exported = <<>>
    /\ InitPage

csvLoadCompletes ==
    /\ \E response \in CsvResponses : loadProductsFromCsv(response)
    /\ UNCHANGED pageVars

sqliteLoadCompletes ==
    /\ \E response \in SqliteResponses : loadProductsFromSqlite(response)
    /\ UNCHANGED pageVars

NextLoad ==
    \/ csvLoadCompletes
    \/ sqliteLoadCompletes
    \/ initContinue
    \/ refreshProducts
    \/ \E format \in ExportFormats : exportFilteredProducts(format)

SpecLoad == InitLoad /\ [][NextLoad]_vars

\* The fetch of a load comes back, and a promise that is settled runs the
\* code that awaits it
SpecLoadFair ==
    /\ SpecLoad
    /\ WF_vars(csvLoadCompletes)
    /\ WF_vars(sqliteLoadCompletes)
    /\ WF_vars(initContinue)


(***************************************************************************)
(* The collection under the calls that read it: the filter pass (with      *)
(* sortProducts and getProductsByNiche inside it), the paging and the      *)
(* export, on the products of the sample sheet                             *)
(***************************************************************************)
FrameCollections == { <<>>, getSampleData, SubSeq(getSampleData, 2, 4) }

FrameFilterStates ==
    { [DefaultFilters EXCEPT !.sort = k] : k \in SortKeys \cup { empty } }
    \cup { [DefaultFilters EXCEPT !.search = sample2_plataforma],
           [DefaultFilters EXCEPT !.platform = sample1_plataforma, !.sort = priceLow],
           [DefaultFilters EXCEPT !.category = sample1_categoria_principal,
                                  !.sort = priceHigh] }

InitFrame ==
    /\ allProducts \in FrameCollections
    /\ currentFilters \in FrameFilterStates
    /\ filteredProducts = <<>>
    /\ currentPage = 1
    /\ filters = <<>>
    /\ url = <<>>
    /\ gridEmpty = FALSE
    /\ grid = <<>>
    /\ nicheGrids = [t \in NicheTags |-> <<>>]
    /\ nichesHidden = FALSE
    /\ loadMoreVisible = FALSE
    /\ paginated = <<>>
    /\ stalePasses = 0
    /\ lastOp = "constructor"
    /\ threw = FALSE
    /\ InitApp
    /\ InitPage

NextFrame ==
    \/ \E collection \in FrameCollections : setProducts(collection) /\ UNCHANGED <<appVars, pageVars>>
    \/ applyFiltersCall /\ UNCHANGED <<appVars, pageVars>>
    \/ loadMoreProducts /\ UNCHANGED <<appVars, pageVars>>
    \/ \E format \in ExportFormats : exportFilteredProducts(format)

SpecFrame == InitFrame /\ [][NextFrame]_vars

(***************************************************************************)
(* normalizeImageSrc as a function of the image string                     *)
(***************************************************************************)
InitImage ==
    /\ allProducts = <<>>
    /\ filteredProducts = <<>>
    /\ currentFilters = DefaultFilters
    /\ currentPage = 1
    /\ filters = <<>>
    /\ url = <<>>
    /\ gridEmpty = FALSE
    /\ grid = <<>>
    /\ nicheGrids = [t \in NicheTags |-> <<>>]
    /\ nichesHidden = FALSE
    /\ loadMoreVisible = FALSE
    /\ paginated = <<>>
    /\ stalePasses = 0
    /\ lastOp = "constructor"
    /\ threw = FALSE
    /\ InitApp
    /\ InitNoSearch
    /\ imgStr \in ImageStrings
    /\ imgSrc = <<>>

\* ProductRenderer.normalizeImageSrc(imgStr)
normalizeImageSrcCall ==
    /\ imgSrc = <<>>
    /\ imgSrc' = << normalizeImageSrc(imgStr) >>
    /\ UNCHANGED <<imgStr, filterVars, appVars, searchVars>>

NextImage == normalizeImageSrcCall

SpecImage == InitImage /\ [][NextImage]_vars

(***************************************************************************)
(* The search box: the input listener debounced by Utils.debounce, the     *)
(* timeouts of the page and the button that clears the filters             *)
(***************************************************************************)
SearchTexts == { empty, sFone, sAUD }

\* the time that passes between two events of the page, in milliseconds
TickSteps == { 100, 200, 300 }

\* setTimeout(later, wait) without the clearTimeout before it
scheduleKeeping(pending, t, value) ==
    Append(pending, [ due |-> t + debounceWait, value |-> value ])

\* executedFunction: clearTimeout(timeout), then timeout = setTimeout(later,
\* wait).  A timeout is held with the time it is due and the value the box
\* had when the event was dispatched.
schedule(pending, t, value) ==
    << [ due |-> t + debounceWait, value |-> value ] >>

\* the listener called with the value the box had at the event
firedValueCaptured(timer, box) == timer.value

\* the listener reads e.target.value when later() calls it
firedValue(timer, box) == box

\* an input event of #search-input: the debounced listener is called
searchInput(value) ==
    /\ value # searchBox
    /\ searchBox' = value
    /\ timers' = schedule(timers, now, value)
    /\ lastEvent' = << [ at |-> now, value |-> value ] >>
    /\ passes' = 0
    /\ lastOp' = "input"
    /\ threw' = FALSE
    /\ UNCHANGED <<allProducts, filteredProducts, currentFilters, currentPage, filters, url,
                   gridEmpty, grid, nicheGrids, nichesHidden, loadMoreVisible, paginated,
                   stalePasses, now, appVars, imageVars>>

\* time passes, and never beyond the time a pending timeout is due
tick(d) ==
    /\ now + d <= MaxTime
    /\ \A i \in 1..Len(timers) : now + d <= timers[i].due
    /\ now' = now + d
    /\ UNCHANGED <<filterVars, appVars, imageVars, searchBox, timers, lastEvent, passes>>

\* later(): clearTimeout(timeout), which holds the timeout set last, then
\* the listener: updateFilter('search', e.target.value)
timerFires ==
    \E i \in 1..Len(timers) :
        /\ timers[i].due <= now
        /\ updateFilter("search", firedValue(timers[i], searchBox))
        /\ timers' = SelectSeq([ j \in 1..Len(timers) |->
                                   [ timers[j] EXCEPT !.due =
                                       IF j = i \/ j = Len(timers) THEN -1 ELSE @ ] ],
                               LAMBDA timer : timer.due # -1)
        /\ passes' = passes + 1
        /\ UNCHANGED <<searchBox, now, lastEvent, appVars, imageVars>>

\* the button that clears the filters: clearFilters sets the value of the box
\* to '' and leaves the timeouts alone
clearFiltersClick ==
    /\ clearFilters
    /\ searchBox' = empty
    /\ UNCHANGED <<timers, now, lastEvent, passes, appVars, imageVars>>

NextSearch ==
    \/ \E collection \in UrlCollections :
          setProducts(collection) /\ UNCHANGED <<appVars, pageVars>>
    \/ \E value \in SearchTexts : searchInput(value)
    \/ \E d \in TickSteps : tick(d)
    \/ timerFires
    \/ clearFiltersClick

SpecSearch == Init /\ [][NextSearch]_vars

(***************************************************************************)
(* Properties                                                              *)
(***************************************************************************)
Range(seq) == { seq[i] : i \in 1..Len(seq) }

Count(seq, x) == Cardinality({ i \in 1..Len(seq) : seq[i] = x })

\* term occurs in field at some offset, letter case disregarded
OccursIn(term, field) ==
    \E offset \in 0..(Len(field) - Len(term)) :
        \A j \in 1..Len(term) : toLowerChar(field[offset + j]) = toLowerChar(term[j])

SearchHit(x, term) ==
    \/ OccursIn(term, x.titulo)
    \/ OccursIn(term, x.descricao)
    \/ OccursIn(term, x.categoria_principal)
    \/ OccursIn(term, x.plataforma)

\* the same characters in the same places
SameString(a, b) == Len(a) = Len(b) /\ \A i \in 1..Len(a) : a[i] = b[i]

Passes(x, cf) ==
    /\ cf.search = empty \/ SearchHit(x, cf.search)
    /\ cf.platform = empty \/ SameString(x.plataforma, cf.platform)
    /\ cf.category = empty \/ SameString(x.categoria_principal, cf.category)

\* seq holds exactly the products of the collection that pass cf, each as
\* often as the collection holds it
HoldsExactlyPassing(seq, cf) ==
    \A x \in Range(allProducts) \cup Range(seq) :
        Count(seq, x) = IF Passes(x, cf) THEN Count(allProducts, x) ELSE 0

SearchOnly == [search : SearchValues \ {empty}, platform : {empty}, category : {empty},
               sort : SortValues]

\* C1: with a non-empty search term and no platform or category filter, the
\* filtered set after the filter pass holds exactly the products whose title,
\* description, category or platform contains the term, letter case
\* disregarded, and every sort key yields the same set of products.
C1_SearchSelectsSubstringMatches ==
    (lastOp = "applyFilters" /\ currentFilters \in SearchOnly) =>
        /\ \A x \in Range(allProducts) \cup Range(filteredProducts) :
              Count(filteredProducts, x) =
                  IF SearchHit(x, currentFilters.search) THEN Count(allProducts, x) ELSE 0
        /\ \A sortBy \in SortValues :
              LET other == applyFiltersResult(allProducts,
                                              [currentFilters EXCEPT !.sort = sortBy])
              IN \A x \in Range(other) \cup Range(filteredProducts) :
                    Count(other, x) = Count(filteredProducts, x)

\* a search that keeps a product by its upper-case description alone, one by
\* its title alone, and drops another
C1_Witness ==
    /\ lastOp = "applyFilters"
    /\ currentFilters \in SearchOnly
    /\ currentFilters.search = sFone
    /\ currentFilters.sort = priceHigh
    /\ allProducts = << Prod(3), Prod(1), Prod(3) >>
    /\ Len(filteredProducts) = 3

\* C2: a product is in filteredProducts if and only if it satisfies the
\* search predicate, the platform predicate and the category predicate
\* together, platform and category being exact string equality and an empty
\* filter value no constraint, for every combination of the filter values.
C2_FiltersAreConjunctionOfPredicates ==
    lastOp = "applyFilters" => HoldsExactlyPassing(filteredProducts, currentFilters)

\* the platform filter 'shopee' keeps the product of platform 'shopee' and
\* drops the one of platform 'Shopee', and the three filters act together
C2_Witness ==
    /\ lastOp = "applyFilters"
    /\ currentFilters.search = sFone
    /\ currentFilters.platform = sShopeeLower
    /\ currentFilters.category = sAudio
    /\ allProducts = << Prod(3), Prod(2), Prod(4) >>
    /\ filteredProducts = << Prod(2) >>

KeyOf(sortBy, x) ==
    CASE sortBy = discount -> x.desconto_percentual
      [] sortBy = priceLow -> 0 - x.preco_promocional
      [] sortBy = priceHigh -> x.preco_promocional
      [] sortBy = newest -> IF x.data_publicacao = NullDate THEN 0 ELSE x.data_publicacao[1]
      [] sortBy = rating -> x.avaliacao
      [] sortBy = sales -> x.vendas

\* C3: for each of the six sort keys filteredProducts is a permutation of the
\* products passing the filters and is ordered by the key: discountPercent,
\* promoPrice (price-high), publishedAt, rating, salesCount descending,
\* promoPrice ascending for price-low; a null publishedAt counts as the epoch
\* and so comes after every dated product.
C3_SortedByKey ==
    (lastOp = "applyFilters" /\ currentFilters.sort \in SortKeys) =>
        /\ HoldsExactlyPassing(filteredProducts, currentFilters)
        /\ \A i, j \in 1..Len(filteredProducts) :
              i < j =>
                 /\ KeyOf(currentFilters.sort, filteredProducts[i])
                       >= KeyOf(currentFilters.sort, filteredProducts[j])
                 /\ (currentFilters.sort = newest
                       /\ filteredProducts[i].data_publicacao = NullDate)
                      => filteredProducts[j].data_publicacao = NullDate

\* sort key newest moves the undated product from the front to the back
C3_Witness ==
    /\ lastOp = "applyFilters"
    /\ currentFilters.sort = newest
    /\ allProducts = << Prod(3), Prod(2), Prod(1) >>
    /\ filteredProducts = << Prod(1), Prod(2), Prod(3) >>

\* C4: renderProductsWithPagination selects exactly the items at the 0-based
\* indices [(page-1)*pageSize, page*pageSize) of the filtered list and signals
\* that more pages remain if and only if page*pageSize is below the number of
\* filtered items; with 25 filtered items page 3 yields the 25th item alone
\* and signals no more pages.
C4_PageWindow ==
    lastOp # "constructor" =>
        LET n == Len(filteredProducts)
            lo == (currentPage - 1) * 12
            hi == currentPage * 12
        IN /\ Len(paginated) = Cardinality({ i \in 1..n : lo < i /\ i <= hi })
           /\ \A j \in 1..Len(paginated) : paginated[j] = filteredProducts[lo + j]
           /\ loadMoreVisible <=> hi < n
           /\ (n = 25 /\ currentPage = 3) =>
                 (paginated = << filteredProducts[25] >> /\ ~loadMoreVisible)

\* page 3 of 25 filtered items has been loaded
C4_Witness ==
    /\ lastOp = "loadMoreProducts"
    /\ currentPage = 3
    /\ Len(filteredProducts) = 25
    /\ paginated = << filteredProducts[25] >>
    /\ ~loadMoreVisible

\* C5: after a filter pass at page 1 followed by k calls of loadMoreProducts
\* the main grid shows exactly the first min((k+1)*12, n) items of
\* filteredProducts, in order and without duplicates.
C5_GridIsPrefixAfterLoadMore ==
    (stalePasses = 0 /\ lastOp # "constructor") =>
        /\ Len(grid) = Min(currentPage * 12, Len(filteredProducts))
        /\ \A i \in 1..Len(grid) : grid[i] = filteredProducts[i]
        /\ \A i, j \in 1..Len(grid) : i < j => grid[i] # grid[j]

\* two calls of loadMoreProducts after a pass at page 1 show all 25 items
C5_Witness ==
    /\ stalePasses = 0
    /\ lastOp = "loadMoreProducts"
    /\ currentPage = 3
    /\ Len(filteredProducts) = 25
    /\ Len(grid) = 25

FilterHandlers == { "updateFilter", "clearFilters", "loadFiltersFromURL" }

\* C6: every operation that changes the filter state (updateFilter,
\* clearFilters, loadFiltersFromURL) leaves currentPage at 1, from any
\* reachable state, and between filter changes currentPage only increases.
C6_FilterChangeResetsPage ==
    [][ /\ (lastOp' \in FilterHandlers /\ currentFilters' # currentFilters)
            => currentPage' = 1
        /\ lastOp' \notin FilterHandlers => currentPage' >= currentPage ]_vars

\* C7: after setProducts(newCollection), in any reachable state, allProducts
\* is newCollection, filteredProducts holds only products of newCollection
\* and every card of the main grid is a product of newCollection.
C7_RefreshReplacesCollection ==
    lastOp = "setProducts" =>
        /\ Range(filteredProducts) \subseteq Range(allProducts)
        /\ Range(grid) \subseteq Range(allProducts)

HasTag(x, tag) == \E j \in 1..Len(x.nichos) : x.nichos[j] = tag

NicheShowsFirstEight ==
    \A tag \in NicheTags :
        \A tagged \in { { i \in 1..Len(allProducts) : HasTag(allProducts[i], tag) } } :
           /\ Len(nicheGrids[tag]) = Min(8, Cardinality(tagged))
           /\ \A j \in 1..Len(nicheGrids[tag]) :
                 \E i \in tagged :
                    /\ Cardinality({ m \in tagged : m < i }) = j - 1
                    /\ nicheGrids[tag][j] = allProducts[i]

\* C8: each niche section shows exactly the first 8, in collection order, of
\* the products of the full unfiltered collection that carry its tag,
\* whatever the search, platform, category and sort, and updateFilter,
\* clearFilters and loadMoreProducts leave its content unchanged.
C8_NicheSectionsIgnoreFilters ==
    [][ /\ NicheShowsFirstEight'
        /\ lastOp' \in { "updateFilter", "clearFilters", "loadMoreProducts" }
              => nicheGrids' = nicheGrids ]_vars

\* under a search filter a niche section of 8 cards, cut from 10 tagged
\* products, shows a product the filter has dropped
C8_Witness ==
    /\ lastOp = "updateFilter"
    /\ currentFilters.search = sFone
    /\ Len(allProducts) = 25
    /\ Len(nicheGrids[sNovidades]) = 8
    /\ \E j \in 1..8 : nicheGrids[sNovidades][j] \notin Range(filteredProducts)

\* C9: after every filter pass the niche sections are hidden if and only if
\* search, platform or category is non-empty or sort is not 'discount', for
\* every value of each filter, the string 'discount' included (stated here for
\* the six sort keys of the sort control).
C9_NichesHiddenIffFilterActive ==
    (lastOp # "constructor" /\ currentFilters.sort \in SortKeys) =>
        (nichesHidden <=> \/ currentFilters.search # empty
                          \/ currentFilters.platform # empty
                          \/ currentFilters.category # empty
                          \/ currentFilters.sort # discount)

ParamPairs(u, name) == SelectSeq(u, LAMBDA pair : pair[1] = name)

\* C10: after updateFilter(d, v) the query-string parameter d equals v when v
\* is non-empty and is absent when v is empty, and the parameters of the
\* other three dimensions are unchanged.
C10_UpdateFilterSyncsItsParameter ==
    [][ \A d \in Dims : \A v \in UrlValues(d) :
          updateFilter(d, v) =>
             /\ ParamPairs(url', d) = IF v # empty THEN << <<d, v>> >> ELSE <<>>
             /\ \A o \in Dims \ {d} : ParamPairs(url', o) = ParamPairs(url, o) ]_vars

\* the sort has just been set to the empty value: its parameter is gone and
\* the parameters of search and category are still there
C10_Witness ==
    /\ lastOp = "updateFilter"
    /\ ~threw
    /\ currentFilters.sort = empty
    /\ ParamPairs(url, "sort") = <<>>
    /\ ParamPairs(url, "search") = << <<"search", discount>> >>
    /\ ParamPairs(url, "category") = << <<"category", sAudio>> >>

\* The fetch of the sheet came back with a text and parseCSV has read it
csvParsed == backend = "csv" /\ fetched.kind = "ok"

\* The data rows of a text: the fields of every line after the first, trimmed
dataRows(csvText) ==
    LET lines == split(csvText, "\n")
    IN [ i \in 1..(Len(lines) - 1) |-> parseCSVLine(trim(lines[i + 1])) ]

\* The data rows of a text that have as many fields as the header, an id, a
\* title and a link that are not empty, and a promotional price above zero:
\* their raw products, in input order
keptRows(csvText) ==
    LET headers == parseCSVLine(split(csvText, "\n")[1])
        rows == dataRows(csvText)
        raw(i) == rawProductOf(headers, rows[i])
        valid(i) == /\ Len(rows[i]) = Len(headers)
                    /\ rawField(raw(i), cId) # empty
                    /\ rawField(raw(i), cTitulo) # empty
                    /\ rawField(raw(i), cLinkAfiliado) # empty
                    /\ parseFloat(rawField(raw(i), cPrecoPromocional)) > 0
        kept == SelectSeq([ i \in 1..Len(rows) |-> i ], valid)
    IN [ k \in 1..Len(kept) |-> raw(kept[k]) ]

\* their normalized forms
validRows(csvText) ==
    [ k \in 1..Len(keptRows(csvText)) |-> normalizedProduct(keptRows(csvText)[k]) ]

\* C11, as stated: the output of parseCSV is exactly the sequence, in input
\* order, of the normalized data rows that have the header's number of
\* fields, a non-empty id, title and affiliate link and a promotional price
\* above zero.  A text of the header line alone has no data row and yet
\* parseCSV returns the six sample products for it.
C11_Original ==
    csvParsed => appProducts = validRows(fetched.text)

\* C11, amended: for a text of at least two lines the output of parseCSV is
\* exactly the sequence, in input order, of the normalized valid data rows,
\* every other row being skipped; for a text without a line break it is the
\* sample dataset.
C11_ParseCSVKeepsValidRowsInOrder ==
    csvParsed =>
        IF Len(split(fetched.text, "\n")) >= 2
        THEN appProducts = validRows(fetched.text)
        ELSE appProducts = getSampleData

\* A row that is kept after a row that is skipped
C11_Witness ==
    /\ csvParsed
    /\ Len(dataRows(fetched.text)) = 2
    /\ Len(appProducts) = 1
    /\ appProducts[1] = validRows(fetched.text)[1]
    /\ Len(dataRows(fetched.text)[1]) # Len(parseCSVLine(headerLine))

\* The collection on the page was read from the rows of the sheet
csvRead == csvParsed /\ Len(split(fetched.text, "\n")) >= 2

\* The collection on the page was read from the rows of the database
sqliteRead ==
    backend = "sqlite" /\ fetched.kind = "ok" /\ ~readDatabase(fetched.db).failed

\* A load has put its collection on the page: the rows of the sheet or of the
\* database, or the sample dataset
collectionLoaded ==
    \/ backend = "csv" /\ fetched.kind \in { "ok", "networkError", "status", "bodyError" }
                       /\ ~escaped
    \/ sqliteRead

\* the discount the claim expects of prices in hundredths
expectedDiscount(originalPrice, promoPrice) ==
    roundQuotient(100 * (originalPrice - promoPrice), originalPrice)

\* a value of a row of the database that is absent, null or zero
absentOrZero(cols, row, c) ==
    \/ ~inObj(cols, c)
    \/ objField(cols, row, c).type = "null"
    \/ objField(cols, row, c).type = "number" /\ objField(cols, row, c).value = 0

\* C12: for every raw row, from either backend, whose discount is absent or
\* zero and whose original price is above zero, the discount of the
\* normalized product is round((originalPrice - promoPrice) / originalPrice
\* * 100).  The SQLite build never calculates a discount.
C12_DiscountBackFilled ==
    /\ csvRead =>
          \A k \in 1..Len(appProducts) :
              LET raw == keptRows(fetched.text)[k]
                  originalPrice == parseFloat(rawField(raw, cPrecoOriginal))
                  promoPrice == parseFloat(rawField(raw, cPrecoPromocional))
              IN (parseInt(rawField(raw, cDescontoPercentual)) = 0 /\ originalPrice > 0)
                     => appProducts[k].desconto_percentual
                            = expectedDiscount(originalPrice, promoPrice)
    /\ sqliteRead =>
          \A k \in 1..Len(appProducts) :
              LET table == findTable(fetched.db)[1]
                  cols == colsToSelect(table)
                  row == table.rows[k]
                  originalPrice == numericField(cols, row, "preco_original")
                  promoPrice == numericField(cols, row, "preco_promocional")
              IN (absentOrZero(cols, row, "desconto_percentual") /\ originalPrice > 0)
                     => appProducts[k].desconto_percentual
                            = expectedDiscount(originalPrice, promoPrice)

\* C13: in every product loaded from either backend no numeric field is NaN;
\* a value that is missing or not a number is 0.  The SQLite build converts
\* with Number(), which gives NaN for a text that is not a number.
C13_NumericFieldsAreNumbers ==
    collectionLoaded =>
        \A k \in 1..Len(appProducts) :
            \A f \in NumberFields : appProducts[k][f] # NaN

\* C14: in every product loaded from either backend a date field is a valid
\* date or null, never an invalid date.  The SQLite build keeps the
\* Invalid Date that new Date() makes of a text that is not a date.
C14_DatesValidOrNull ==
    collectionLoaded =>
        \A k \in 1..Len(appProducts) :
            \A f \in DateFields : appProducts[k][f] # << NaN >>

C16_DiscountWithinPercentRange ==
    collectionLoaded =>
        \A k \in 1..Len(appProducts) :
            /\ appProducts[k].desconto_percentual % 100 = 0
            /\ appProducts[k].desconto_percentual >= 0
            /\ appProducts[k].desconto_percentual <= 10000

\* C17: CSVParser.loadProducts never rejects: on a network error or a status
\* that is not a success it resolves with the sample dataset of exactly six
\* products, and otherwise with the products parsed from the text fetched.
C17_CsvLoadNeverRejects ==
    (backend = "csv" /\ fetched.kind \notin { "none", "pending" }) =>
        /\ ~escaped
        /\ fetched.kind \in { "networkError", "status", "bodyError" } =>
               /\ Len(appProducts) = 6
               /\ appProducts = getSampleData
        /\ fetched.kind = "ok" =>
               IF Len(split(fetched.text, "\n")) >= 2
               THEN appProducts = validRows(fetched.text)
               ELSE appProducts = getSampleData

\* The sheet answers with a status that is not a success and the page shows
\* the six sample products
C17_Witness ==
    /\ backend = "csv"
    /\ fetched.kind = "status"
    /\ ~escaped
    /\ Len(appProducts) = 6
    /\ allProducts = getSampleData

\* the failures of the load of the database: sql.js does not start, no file
\* is reachable, the file does not open, no valid table, no expected column,
\* an empty result
sqliteFailed ==
    /\ backend = "sqlite"
    /\ fetched.kind \notin { "none", "pending" }
    /\ fetched.kind = "ok" => readDatabase(fetched.db).failed

\* the load that began has ended and left its collection on the page
loadEnded == loadPc # "fetching" /\ fetched.kind \notin { "none", "pending" }

\* C18: every run of loadProducts, during init or refreshProducts, ends: the
\* collection is then populated, or is the sample collection, or is empty
\* with an error notification shown; on the database path no reachable file,
\* no valid table and an empty result each end in the empty collection with
\* an error notification; no exception or rejection escapes loadProducts.  A
\* sheet whose rows are all skipped ends in the empty collection and no
\* notification at all.
C18_EveryLoadTerminates ==
    /\ (loadPc = "fetching") ~> loadEnded
    /\ [](loadEnded =>
            /\ ~escaped
            /\ appProducts = <<>> => "error" \in Range(notifications)
            /\ sqliteFailed => appProducts = <<>> /\ "error" \in Range(notifications))

\* the value of a field of a product as JavaScript holds it: null, a number,
\* a string, an array of strings or a Date
fieldValue(product, f) ==
    CASE f \in NumberFields -> [ t |-> "number", v |-> product[f] ]
      [] f \in DateFields ->
             IF product[f] = NullDate THEN [ t |-> "null" ]
             ELSE [ t |-> "date", v |-> product[f][1] ]
      [] f \in ArrayFields -> [ t |-> "array", v |-> product[f] ]
      [] OTHER -> [ t |-> "string", v |-> product[f] ]

\* two values of the same kind and content; NaN differs from every value
sameContent(a, b) ==
    /\ a.t = b.t
    /\ a.t # "null" => a.v = b.v
    /\ a.t = "number" => a.v # NaN

\* C19: parsing the string exportFilteredProducts('json') returns gives as
\* many products as filteredProducts holds, in the same order, each equal in
\* every field to the product exported.  A date comes back as the string of
\* its toISOString.
C19_JsonRoundTrip ==
    (exported # <<>> /\ exported[1].format = "json") =>
        LET reparsed == jsonParse(exported[1].data)
        IN /\ Len(reparsed) = Len(filteredProducts)
           /\ \A i \in 1..Len(filteredProducts) :
                  /\ DOMAIN reparsed[i] = DOMAIN filteredProducts[i]
                  /\ \A f \in DOMAIN filteredProducts[i] :
                         sameContent(reparsed[i][f], fieldValue(filteredProducts[i], f))

Reverse(seq) == [ i \in 1..Len(seq) |-> seq[Len(seq) + 1 - i] ]

\* no two products of the collection have the same promotional price
distinctPrices(collection) ==
    \A i, j \in 1..Len(collection) :
        collection[i].preco_promocional = collection[j].preco_promocional => i = j

\* C20: for every collection in which no two products have the same
\* promotional price, the order sort key price-low gives is exactly the
\* reverse of the order sort key price-high gives, under the same filters.
C20_PriceLowReversesPriceHigh ==
    (lastOp = "applyFilters" /\ currentFilters.sort = priceLow
        /\ distinctPrices(allProducts)) =>
        filteredProducts =
            Reverse(applyFiltersResult(allProducts,
                                       [currentFilters EXCEPT !.sort = priceHigh]))

\* three products of three prices, in neither order when loaded
C20_Witness ==
    /\ lastOp = "applyFilters"
    /\ currentFilters = [DefaultFilters EXCEPT !.sort = priceLow]
    /\ allProducts = << Prod(4), Prod(1), Prod(2) >>
    /\ filteredProducts = << Prod(1), Prod(2), Prod(4) >>

\* the status of a row of the database is absent (no such column, or NULL)
\* or the empty text
statusAbsentOrEmpty(cols, row) ==
    \/ ~inObj(cols, "status")
    \/ objField(cols, row, "status").type = "null"
    \/ /\ objField(cols, row, "status").type = "string"
       /\ objField(cols, row, "status").value = empty

\* C24: for every raw row, from either backend, whose status is absent or
\* empty the status of the normalized product is 'published'.  The SQLite
\* build defaults the status to the empty string.
C24_StatusDefaultsToPublished ==
    /\ csvRead =>
          \A k \in 1..Len(appProducts) :
              rawField(keptRows(fetched.text)[k], cStatus) = empty
                  => appProducts[k].status = sPublished
    /\ sqliteRead =>
          \A k \in 1..Len(appProducts) :
              LET table == findTable(fetched.db)[1]
              IN statusAbsentOrEmpty(colsToSelect(table), table.rows[k])
                     => appProducts[k].status = sPublished

\* C25: after any sequence of updateFilter and clearFilters calls, with any
\* values, the empty value for sort included, loadFiltersFromURL reads back
\* exactly the current filter state: currentFilters is the same before and
\* after the call in all four dimensions.  Stated from the first clearFilters
\* on, when the query string holds only what these calls wrote.  An empty
\* sort is read back as 'discount'.
C25_UrlReadsBackFilterState ==
    [][ (/\ filters # <<>>
         /\ lastOp \in { "updateFilter", "clearFilters" }
         /\ lastOp' = "loadFiltersFromURL")
            => currentFilters' = currentFilters ]_vars

\* C26: updateFilter(d, v) completes without raising an error for every
\* dimension and value in every reachable state of a FiltersManager, a
\* freshly constructed one on which clearFilters was never called included.
\* Before the first clearFilters this.filters is undefined and line 91 raises
\* a TypeError.
C26_UpdateFilterNeverRaises ==
    lastOp = "updateFilter" => ~threw

\* C27: on the SQLite build, whenever a refresh ends with the load-error
\* notification and an empty collection, no success notification is shown
\* for that refresh.  refreshProducts shows it after every loadProducts that
\* returns, and the loadProducts of the SQLite build always returns.
C27_NoSuccessAfterFailedRefresh ==
    (/\ backend = "sqlite"
     /\ caller = "refresh"
     /\ loadPc = "idle"
     /\ sqliteFailed
     /\ appProducts = <<>>
     /\ "error" \in Range(notifications))
        => "success" \notin Range(notifications)

\* C30: in every state reachable by setProducts, updateFilter, clearFilters
\* and loadMoreProducts, currentPage >= 1 and (currentPage - 1) * itemsPerPage
\* is below max(1, number of filtered products), so that the count
\* loadMoreProducts reports is above zero.  loadMoreProducts increments the
\* page whatever the number of filtered products, and setProducts keeps the
\* page when the new collection is shorter.
C30_PageWithinFilteredProducts ==
    /\ currentPage >= 1
    /\ (currentPage - 1) * itemsPerPage
           < (IF Len(filteredProducts) > 1 THEN Len(filteredProducts) ELSE 1)

\* the lines of the document exportFilteredProducts('csv') returned last
exportedLines == split(exported[1].data, "\n")

csvExported ==
    /\ lastOp = "exportFilteredProducts"
    /\ exported # <<>>
    /\ exported[1].format = "csv"

hasLineBreak(product) ==
    \E c \in 1..8 : "\n" \in Range(exportRow(product)[c])

\* C28: for every product of filteredProducts whose fields hold no line
\* break, parseCSVLine applied to its row of the CSV that
\* exportFilteredProducts('csv') produced returns exactly the 8 values title,
\* description, original price, promotional price, discount followed by '%',
\* platform, category and affiliate link, also when a field holds a double
\* quote or a comma.  The export wraps each cell in quotes without doubling
\* the quotes inside it.
C28_ExportedCsvReadsBack ==
    (csvExported /\ \A i \in 1..Len(filteredProducts) :
                        ~hasLineBreak(filteredProducts[i]))
        => /\ Len(exportedLines) = Len(filteredProducts) + 1
           /\ \A i \in 1..Len(filteredProducts) :
                  parseCSVLine(exportedLines[i + 1])
                      = exportRow(filteredProducts[i])

\* C23: applyFilters (with sortProducts and getProductsByNiche inside it),
\* loadMoreProducts and exportFilteredProducts leave allProducts as it was,
\* in content and in order, for every filter state and sort key; only
\* setProducts changes it.
C23_CollectionReadOnly ==
    [][ lastOp' # "setProducts" => allProducts' = allProducts ]_vars

\* a pass has sorted the collection into another order and every reader
\* has run
C23_Witness ==
    /\ lastOp \in { "applyFilters", "loadMoreProducts", "exportFilteredProducts" }
    /\ currentFilters = [DefaultFilters EXCEPT !.sort = priceLow]
    /\ Len(allProducts) > 1
    /\ filteredProducts # allProducts
    /\ exported # <<>>
    /\ currentPage > 1

Base64Alphabet ==
    AsciiLetters \cup { DigitChars[i] : i \in 1..10 } \cup { "+", "/", "=" }

onePassPerBurst(event, t, runs) ==
    event # <<>> =>
        /\ runs <= 1
        /\ t < event[1].at + debounceWait => runs = 0
        /\ t > event[1].at + debounceWait => runs = 1

\* C21: input events of the search box that each come less than 300 ms
\* after the one before are coalesced: no filter pass runs for a keystroke
\* of the burst, and exactly one pass runs, 300 ms after the last event,
\* with the latest value of the box.
C21_BurstCoalescedIntoOnePass ==
    [][ /\ onePassPerBurst(lastEvent', now', passes')
        /\ lastEvent' # lastEvent =>
             UNCHANGED <<currentFilters, filteredProducts, grid, url, stalePasses>>
        /\ passes' = passes + 1 =>
             /\ now = lastEvent[1].at + debounceWait
             /\ searchBox = lastEvent[1].value =>
                    currentFilters'.search = lastEvent[1].value
             /\ filteredProducts' = applyFiltersResult(allProducts, currentFilters')
      ]_vars

\* two keystrokes 200 ms apart, and the one pass of the burst has run with
\* the second value on a loaded collection
C21_Witness ==
    /\ lastEvent # <<>>
    /\ lastEvent[1].at = 200
    /\ lastEvent[1].value = sFone
    /\ now = 500
    /\ passes = 1
    /\ currentFilters.search = sFone
    /\ allProducts # <<>>
    /\ filteredProducts # allProducts

\* C29: when clearFilters runs while a debounced search event is pending and
\* is the last action of the user, the run of the listener that follows
\* leaves the search filter empty and filteredProducts the result of the
\* cleared filter state.
C29_ClearNotUndoneByPendingSearch ==
    [][ (lastOp = "clearFilters" /\ passes' = passes + 1) =>
            /\ currentFilters' = DefaultFilters
            /\ filteredProducts' = applyFiltersResult(allProducts, DefaultFilters)
            /\ getQueryParam(url', "search") = empty ]_vars

\* a search was typed, the filters were cleared before its timeout was due,
\* and the listener has run since on a loaded collection
C29_Witness ==
    /\ lastOp = "updateFilter"
    /\ passes = 1
    /\ lastEvent # <<>>
    /\ lastEvent[1].value = sFone
    /\ searchBox = empty
    /\ currentFilters = DefaultFilters
    /\ allProducts # <<>>
    /\ filteredProducts = applyFiltersResult(allProducts, DefaultFilters)

====
